---- MODULE Spec2Model ----
(***************************************************************************)
(* Model of the pryx host's sidecar supervisor and duplex RPC broker        *)
(* (apps/host/src/sidecar/process.rs).  Every mutex critical section of the *)
(* source is one atomic step; the await points between them are where the   *)
(* tasks (monitor, API caller, call_rpc callers, stdout readers, the child) *)
(* interleave.                                                              *)
(***************************************************************************)
EXTENDS Integers, Sequences, FiniteSets, TLC

\* ---------------------------------------------------------------- bounds
MaxOps == 3          \* start()/stop() calls made through the public API
MaxCalls == 2        \* call_rpc() invocations, all of which may be in flight together
MaxStarts == 2       \* start() calls while RPCs are made: a child and its replacement
MaxRestarts == 2     \* config.max_restarts of the modelled supervisor (> 0)
MaxReqs == 2         \* request frames a child sends to the host
MaxAnnounce == 2     \* port announcements one child prints
MaxBoot == 1         \* start() calls from the API while ports are watched under the monitor
MaxProxy == 1        \* call_rpc invocations made by HTTP handlers
MaxExchanges == 1    \* HTTP requests the server receives
MaxSegments == 3     \* segments between slashes in the path of a static request
MaxCrashes == 3      \* child exits the monitor counts when restarts are unlimited
MaxAttempt == 60     \* largest small attempt number handed to calculate_backoff
MaxLine == 5         \* characters of a stdout line after its prefix, if it has one
MaxWrites == 1        \* frames each writer of stdin writes
MaxShort == 2        \* characters of the short stdout lines the reader is fed
MaxApprovals == 2     \* request_approval calls made on the manager

\* ------------------------------------------------------ program constants
InitialBackoffMs == 1000
BackoffMultiplier == 2
MaxBackoffExp == 10
U16Max == 65535
TokenLen == 32

\* ------------------------------------------------------------- variables
VARIABLES
    state,             \* SidecarProcess.state : [tag, arg]
    child,             \* SidecarProcess.child : 0 = None, else the child's number
    port,              \* SidecarProcess.port : 0 = None
    start_time,        \* SidecarProcess.start_time : FALSE = None
    stdin,             \* SidecarProcess.stdin : 0 = None, else the child whose pipe it is
    pending_requests,  \* SidecarProcess.pending_requests : the ids holding a sender
    next_rpc_id,       \* SidecarProcess.next_rpc_id
    procs,             \* OS: status of every child ever spawned, in spawn order
    stdout,            \* OS: per child, the lines written and not yet read
    stdin_log,         \* OS: per child, the ids of the request frames it received
    pc,                \* position of the monitor task and of the API caller
    crash_count,       \* monitor()'s local crash_count
    spawned,           \* start()'s local: the child returned by spawn_sidecar
    child_opt,         \* stop()'s local child_opt
    ops,               \* number of API calls made so far
    ncalls,            \* call_rpc invocations so far, numbered in the order they take an id
    call_pc,           \* position of each call_rpc invocation
    call_id,           \* call_rpc's local id
    chan,              \* the oneshot channel each invocation created
    ret,               \* what each invocation returned
    replied,           \* the frame the child wrote for each id
    stop_seen,         \* the last API call made is stop()
    mon_restarts,      \* start() calls made by the monitor
    spawn_fails,       \* spawn_sidecar calls the OS refused
    self_crash_count,  \* SidecarProcess.crash_count, the field status() reads
    app_handle,        \* SidecarProcess.app_handle : TRUE = Some
    start_ret,         \* what the last start() of each task returned
    host_out,          \* OS: per child, the response frames the host wrote to its stdin
    asked,             \* the request frame the child wrote for each of its ids
    announced,         \* per child, the ports it has announced so far
    collab,            \* for each request id, what the handler's OS collaborator did
    admin_token,       \* SidecarProcess.admin_token, as a sequence of characters
    http,              \* the HTTP exchange the server is working on
    max_restarts,      \* config.max_restarts : 0 = unlimited
    calc,              \* a call of one of the helper functions: its argument and result
    perm,              \* a PermissionManager and the request_approval calls made on it
    dialog,            \* the readers inside blocking_show: [c, id] for child c, request id
    stdin_guard,       \* the call_rpc invocation holding the lock of stdin : 0 = unlocked
    wr,                \* the tasks writing a frame to stdin step by step: position, frame, result
    wire,              \* the chunks written to the stdin pipes, in the order of the writes
    sigs               \* OS: the signals stop() has sent, each with the process group it went to

vars == << state, child, port, start_time, stdin, pending_requests, next_rpc_id,
           procs, stdout, stdin_log, pc, crash_count, spawned, child_opt, ops,
           ncalls, call_pc, call_id, chan, ret, replied, stop_seen, mon_restarts,
           spawn_fails, self_crash_count, app_handle, start_ret, host_out, asked,
           announced, collab, admin_token, http, max_restarts, calc, perm, dialog, stdin_guard, wr, wire,
           sigs >>

sup_vars == << state, child, port, start_time >>
rpc_vars == << pending_requests, next_rpc_id, ncalls, call_pc, call_id, chan, ret >>
os_vars == << procs, stdout, stdin_log, replied >>
task_vars == << pc, crash_count, spawned, child_opt, ops, stop_seen, mon_restarts,
               spawn_fails >>
fixed_vars == << self_crash_count, app_handle >>
host_vars == << start_ret, host_out, asked, announced, collab >>
ext_vars ==
    << admin_token, http, max_restarts, calc, perm, dialog, stdin_guard, wr, wire, sigs >>
aux_vars == << admin_token, http, max_restarts, calc, perm, dialog, wr, wire, sigs >>

Tasks == {"mon", "ctl"}
Calls == 1..MaxCalls
Ids == 1..MaxCalls
ReqIds == 1..MaxReqs

\* ------------------------------------------------------------ JSON values
JAbsent == [t |-> "absent"]
JNull == [t |-> "null"]
JTrue == [t |-> "true"]
JFalse == [t |-> "false"]
JNum(n) == [t |-> "num", n |-> n]
JStr(s) == [t |-> "str", s |-> s]
JObj(f) == [t |-> "obj", f |-> f]

\* serde_json Value::get(key)
JGet(v, k) == IF v.t = "obj" /\ k \in DOMAIN v.f THEN v.f[k] ELSE JAbsent
JHas(v, k) == JGet(v, k) # JAbsent

\* what call_rpc returned: Ok(v), or an error of some kind
RetErr(kind) == [k |-> kind, v |-> JAbsent, code |-> 0, msg |-> ""]

\* ------------------------------------------------------- SidecarState
Stopped == [tag |-> "Stopped", arg |-> 0]
Starting == [tag |-> "Starting", arg |-> 0]
Running == [tag |-> "Running", arg |-> 0]
Stopping == [tag |-> "Stopping", arg |-> 0]
Restarting(b) == [tag |-> "Restarting", arg |-> b]
Crashed(n) == [tag |-> "Crashed", arg |-> n]

RECURSIVE Pow(_, _)
Pow(b, e) == IF e = 0 THEN 1 ELSE b * Pow(b, e - 1)

Clamp(x, lo, hi) == IF x < lo THEN lo ELSE IF x > hi THEN hi ELSE x

calculate_backoff(attempt) ==
    InitialBackoffMs * Pow(BackoffMultiplier, Clamp(attempt - 1, 0, MaxBackoffExp))

\* ------------------------------------------------------------ text
\* text is a sequence of characters
Contains(s, sub) ==
    \E i \in 0..(Len(s) - Len(sub)) : SubSeq(s, i + 1, i + Len(sub)) = sub

\* Option<T>
None == [some |-> FALSE, v |-> << >>]
Some(x) == [some |-> TRUE, v |-> x]

\* process.rs:829-838: len alphanumeric characters; the model fixes one draw
generate_random_token(len) == [i \in 1..len |-> IF i % 2 = 1 THEN "k" ELSE "7"]

\* no request has reached the server yet
NoExchange ==
    [st |-> "idle", n |-> 0, auth |-> None, cookie |-> None, cookies |-> << >>, ext |-> FALSE,
     sidecar |-> FALSE, reached |-> FALSE, call |-> 0, status |-> 0, body |-> JAbsent,
     text |-> "", path |-> << >>, content |-> ""]

\* no helper function has been called
NoCall ==
    [st |-> "idle", attempt |-> 0, line |-> << >>, backoff |-> 0, port |-> None,
     latched |-> FALSE, frame |-> "none"]

\* permissions.rs:38-42: no PermissionManager has been constructed yet
NoManager ==
    [made |-> FALSE,
     config |-> [show_native_dialog |-> FALSE, approval_required_for_critical |-> FALSE],
     pending_requests |-> << >>, request_senders |-> {}, calls |-> << >>]

\* the three writers of stdin: call_rpc, send_notification, send_response
Writers == { "call", "notify", "response" }

\* a writer that is not inside its function
Resting == [pc |-> "idle", frame |-> [t |-> "absent"], ret |-> "none", n |-> 0]

\* ------------------------------------------------------------------ Init
Boot ==
    /\ state = Stopped
    /\ child = 0
    /\ port = 0
    /\ start_time = FALSE
    /\ stdin = 0
    /\ pending_requests = << >>
    /\ next_rpc_id = 1
    /\ procs = << >>
    /\ stdout = << >>
    /\ stdin_log = << >>
    /\ pc = [t \in Tasks |-> IF t = "mon" THEN "m_loop" ELSE "idle"]
    /\ crash_count = 0
    /\ spawned = [t \in Tasks |-> 0]
    /\ child_opt = 0
    /\ ops = 0
    /\ ncalls = 0
    /\ call_pc = [n \in Calls |-> "none"]
    /\ call_id = [n \in Calls |-> 0]
    /\ chan = [n \in Calls |-> [st |-> "none", v |-> JAbsent]]
    /\ ret = [n \in Calls |-> RetErr("none")]
    /\ replied = [i \in Ids |-> JAbsent]
    /\ stop_seen = FALSE
    /\ mon_restarts = 0
    /\ spawn_fails = 0
    /\ self_crash_count = 0
    /\ app_handle = TRUE
    /\ start_ret = [t \in Tasks |-> "none"]
    /\ host_out = << >>
    /\ asked = [i \in ReqIds |-> JAbsent]
    /\ announced = << >>
    /\ collab = [i \in ReqIds |-> "unasked"]
    /\ admin_token = generate_random_token(TokenLen)
    /\ http = NoExchange
    /\ calc = NoCall
    /\ perm = NoManager
    /\ dialog = {}
    /\ stdin_guard = 0
    /\ wr = [w \in Writers |-> Resting]
    /\ wire = << >>
    /\ sigs = << >>

\* the supervisor configured with a restart cap
Init == Boot /\ max_restarts = MaxRestarts

\* the supervisor configured with max_restarts = 0
InitUnlimited == Boot /\ max_restarts = 0

Return(t) == IF t = "mon" THEN "m_loop" ELSE "idle"

\* ------------------------------------------------------------ start()
\* process.rs:101-105
StartBegin(t) ==
    /\ pc[t] = "start_begin"
    /\ state' = Starting
    /\ start_time' = TRUE
    /\ pc' = [pc EXCEPT ![t] = "start_spawn"]
    /\ UNCHANGED << child, port, stdin, crash_count, spawned, child_opt, ops,
                    stop_seen, mon_restarts, spawn_fails >>
    /\ UNCHANGED rpc_vars /\ UNCHANGED os_vars
    /\ UNCHANGED fixed_vars /\ UNCHANGED ext_vars /\ UNCHANGED host_vars

\* spawn_sidecar succeeded: the child exists, its stdin replaces the handle held
\* (process.rs:410-412, under the lock of stdin)
SpawnOk(t) ==
    /\ pc[t] = "start_spawn"
    /\ stdin_guard = 0
    /\ procs' = Append(procs, "alive")
    /\ stdout' = Append(stdout, << >>)
    /\ stdin_log' = Append(stdin_log, << >>)
    /\ host_out' = Append(host_out, << >>)
    /\ announced' = Append(announced, << >>)
    /\ stdin' = Len(procs) + 1
    /\ spawned' = [spawned EXCEPT ![t] = Len(procs) + 1]
    /\ pc' = [pc EXCEPT ![t] = "start_store"]
    /\ UNCHANGED << crash_count, child_opt, ops, stop_seen, mon_restarts, spawn_fails, replied >>
    /\ UNCHANGED sup_vars /\ UNCHANGED rpc_vars
    /\ UNCHANGED fixed_vars /\ UNCHANGED ext_vars /\ UNCHANGED << start_ret, asked, collab >>

\* spawn_sidecar failed: process.rs:166-169
SpawnFail(t) ==
    /\ pc[t] = "start_spawn"
    /\ state' = Stopped
    /\ spawn_fails' = spawn_fails + 1
    /\ start_ret' = [start_ret EXCEPT ![t] = "err"]
    /\ pc' = [pc EXCEPT ![t] = Return(t)]
    /\ UNCHANGED << child, port, start_time, stdin, crash_count, spawned, child_opt,
                    ops, stop_seen, mon_restarts >>
    /\ UNCHANGED rpc_vars /\ UNCHANGED os_vars
    /\ UNCHANGED fixed_vars /\ UNCHANGED ext_vars /\ UNCHANGED << host_out, asked, announced, collab >>

\* process.rs:143
StartStore(t) ==
    /\ pc[t] = "start_store"
    /\ child' = spawned[t]
    /\ pc' = [pc EXCEPT ![t] = "start_wait"]
    /\ UNCHANGED << state, port, start_time, stdin, crash_count, spawned, child_opt,
                    ops, stop_seen, mon_restarts, spawn_fails >>
    /\ UNCHANGED rpc_vars /\ UNCHANGED os_vars
    /\ UNCHANGED fixed_vars /\ UNCHANGED ext_vars /\ UNCHANGED host_vars

\* the state left by a start() whose port wait timed out: not Running
StoppedOnTimeout(found) == IF found THEN Running ELSE Stopped

\* process.rs:148-164: the state start() sets after the port wait, found or not
StateAfterWait(found) == Running

\* process.rs:145-164: wait_for_port saw a port, or start_timeout elapsed; Ok(())
StartWait(t) ==
    /\ pc[t] = "start_wait"
    /\ state' = StateAfterWait(port # 0)
    /\ start_ret' = [start_ret EXCEPT ![t] = IF port # 0 THEN "ok_port" ELSE "ok_timeout"]
    /\ pc' = [pc EXCEPT ![t] = Return(t)]
    /\ UNCHANGED << child, port, start_time, stdin, crash_count, spawned, child_opt,
                    ops, stop_seen, mon_restarts, spawn_fails >>
    /\ UNCHANGED rpc_vars /\ UNCHANGED os_vars
    /\ UNCHANGED fixed_vars /\ UNCHANGED ext_vars /\ UNCHANGED << host_out, asked, announced, collab >>

\* ------------------------------------------------------------- stop()
\* the API caller enters start()
CallStart(limit) ==
    /\ pc["ctl"] = "idle"
    /\ ops < limit
    /\ ops' = ops + 1
    /\ stop_seen' = FALSE
    /\ start_ret' = [start_ret EXCEPT !["ctl"] = "none"]
    /\ pc' = [pc EXCEPT !["ctl"] = "start_begin"]
    /\ UNCHANGED << stdin, crash_count, spawned, child_opt, mon_restarts, spawn_fails >>
    /\ UNCHANGED sup_vars /\ UNCHANGED rpc_vars /\ UNCHANGED os_vars
    /\ UNCHANGED fixed_vars /\ UNCHANGED ext_vars /\ UNCHANGED << host_out, asked, announced, collab >>

\* the API caller enters stop(): process.rs:175
StopBegin ==
    /\ pc["ctl"] = "idle"
    /\ ops < MaxOps
    /\ ops' = ops + 1
    /\ stop_seen' = TRUE
    /\ state' = Stopping
    /\ pc' = [pc EXCEPT !["ctl"] = "stop_take"]
    /\ UNCHANGED << child, port, start_time, stdin, crash_count, spawned, child_opt,
                    mon_restarts, spawn_fails >>
    /\ UNCHANGED rpc_vars /\ UNCHANGED os_vars
    /\ UNCHANGED fixed_vars /\ UNCHANGED ext_vars /\ UNCHANGED host_vars

\* process.rs:177-179
StopTake ==
    /\ pc["ctl"] = "stop_take"
    /\ child_opt' = child
    /\ child' = 0
    /\ pc' = [pc EXCEPT !["ctl"] = IF child # 0 THEN "stop_wait" ELSE "stop_finish"]
    /\ UNCHANGED << state, port, start_time, stdin, crash_count, spawned, ops,
                    stop_seen, mon_restarts, spawn_fails >>
    /\ UNCHANGED rpc_vars /\ UNCHANGED os_vars
    /\ UNCHANGED fixed_vars /\ UNCHANGED ext_vars /\ UNCHANGED host_vars

\* process.rs:180-207: SIGTERM to the group, wait up to 2 s, SIGKILL, reap
StopWait ==
    /\ pc["ctl"] = "stop_wait"
    /\ procs' = [procs EXCEPT ![child_opt] = "reaped"]
    /\ pc' = [pc EXCEPT !["ctl"] = "stop_finish"]
    /\ UNCHANGED << stdin, stdout, stdin_log, replied, crash_count, spawned, child_opt,
                    ops, stop_seen, mon_restarts, spawn_fails >>
    /\ UNCHANGED sup_vars /\ UNCHANGED rpc_vars
    /\ UNCHANGED fixed_vars /\ UNCHANGED ext_vars /\ UNCHANGED host_vars

\* process.rs:210-214
StopFinish ==
    /\ pc["ctl"] = "stop_finish"
    /\ state' = Stopped
    /\ start_time' = FALSE
    /\ port' = 0
    /\ child_opt' = 0
    /\ pc' = [pc EXCEPT !["ctl"] = "idle"]
    /\ UNCHANGED << child, stdin, crash_count, spawned, ops, stop_seen, mon_restarts, spawn_fails >>
    /\ UNCHANGED rpc_vars /\ UNCHANGED os_vars
    /\ UNCHANGED fixed_vars /\ UNCHANGED ext_vars /\ UNCHANGED host_vars

\* stop() between taking the child and clearing the fields, signal by signal
\* process.rs:180: child.id() is None once try_wait or wait has seen the child
\* exit, and unwrap_or_default makes that 0; killpg(0, sig) signals the process
\* group of the caller
PidOf(c) == IF procs[c] = "reaped" THEN 0 ELSE c

\* process.rs:180-185: killpg(pid, SIGTERM)
StopTerm ==
    /\ pc["ctl"] = "stop_wait"
    /\ sigs' = Append(sigs, [sig |-> "SIGTERM", pgid |-> PidOf(child_opt), of |-> child_opt])
    /\ pc' = [pc EXCEPT !["ctl"] = "stop_timed"]
    /\ UNCHANGED << crash_count, spawned, child_opt, ops, stop_seen, mon_restarts, spawn_fails >>
    /\ UNCHANGED sup_vars /\ UNCHANGED rpc_vars /\ UNCHANGED os_vars /\ UNCHANGED stdin
    /\ UNCHANGED fixed_vars /\ UNCHANGED host_vars
    /\ UNCHANGED << admin_token, http, max_restarts, calc, perm, dialog, stdin_guard, wr, wire >>

\* process.rs:192-194: child.wait() completes within the 2 s: Ok(Ok(_))
StopExited ==
    /\ pc["ctl"] = "stop_timed"
    /\ procs[child_opt] # "alive"
    /\ procs' = [procs EXCEPT ![child_opt] = "reaped"]
    /\ pc' = [pc EXCEPT !["ctl"] = "stop_finish"]
    /\ UNCHANGED << stdin, stdout, stdin_log, replied, crash_count, spawned, child_opt,
                    ops, stop_seen, mon_restarts, spawn_fails >>
    /\ UNCHANGED sup_vars /\ UNCHANGED rpc_vars
    /\ UNCHANGED fixed_vars /\ UNCHANGED ext_vars /\ UNCHANGED host_vars

\* process.rs:192, 196-200: the 2 s pass and child.wait() has not completed;
\* killpg(pid, SIGKILL), which no process survives
StopKill ==
    /\ pc["ctl"] = "stop_timed"
    /\ procs[child_opt] = "alive"
    /\ sigs' = Append(sigs, [sig |-> "SIGKILL", pgid |-> child_opt, of |-> child_opt])
    /\ procs' = [procs EXCEPT ![child_opt] = "exited"]
    /\ pc' = [pc EXCEPT !["ctl"] = "stop_reap"]
    /\ UNCHANGED << stdin, stdout, stdin_log, replied, crash_count, spawned, child_opt,
                    ops, stop_seen, mon_restarts, spawn_fails >>
    /\ UNCHANGED sup_vars /\ UNCHANGED rpc_vars
    /\ UNCHANGED fixed_vars /\ UNCHANGED host_vars
    /\ UNCHANGED << admin_token, http, max_restarts, calc, perm, dialog, stdin_guard, wr, wire >>

\* process.rs:205: child.wait().await after the SIGKILL
StopReap ==
    /\ pc["ctl"] = "stop_reap"
    /\ procs[child_opt] = "exited"
    /\ procs' = [procs EXCEPT ![child_opt] = "reaped"]
    /\ pc' = [pc EXCEPT !["ctl"] = "stop_finish"]
    /\ UNCHANGED << stdin, stdout, stdin_log, replied, crash_count, spawned, child_opt,
                    ops, stop_seen, mon_restarts, spawn_fails >>
    /\ UNCHANGED sup_vars /\ UNCHANGED rpc_vars
    /\ UNCHANGED fixed_vars /\ UNCHANGED ext_vars /\ UNCHANGED host_vars

\* ---------------------------------------------------------- monitor()
\* process.rs:221-230, 281-286: read the state; sleep unless Running | Starting
MonRead ==
    /\ pc["mon"] = "m_loop"
    /\ pc' = [pc EXCEPT !["mon"] =
                IF state.tag \in {"Running", "Starting"} THEN "m_check" ELSE "m_loop"]
    /\ UNCHANGED << stdin, crash_count, spawned, child_opt, ops, stop_seen, mon_restarts, spawn_fails >>
    /\ UNCHANGED sup_vars /\ UNCHANGED rpc_vars /\ UNCHANGED os_vars
    /\ UNCHANGED fixed_vars /\ UNCHANGED ext_vars /\ UNCHANGED host_vars

\* process.rs:231-249: try_wait reaps an exited child; no handle counts as dead
MonCheck ==
    /\ pc["mon"] = "m_check"
    /\ procs' = IF child # 0 /\ procs[child] = "exited"
                THEN [procs EXCEPT ![child] = "reaped"] ELSE procs
    /\ pc' = [pc EXCEPT !["mon"] =
                IF child # 0 /\ procs[child] = "alive" THEN "m_loop" ELSE "m_clear"]
    /\ UNCHANGED << stdin, stdout, stdin_log, replied, crash_count, spawned, child_opt,
                    ops, stop_seen, mon_restarts, spawn_fails >>
    /\ UNCHANGED sup_vars /\ UNCHANGED rpc_vars
    /\ UNCHANGED fixed_vars /\ UNCHANGED ext_vars /\ UNCHANGED host_vars

\* process.rs:252-255
MonClear ==
    /\ pc["mon"] = "m_clear"
    /\ child' = 0
    /\ pc' = [pc EXCEPT !["mon"] = "m_count"]
    /\ UNCHANGED << state, port, start_time, stdin, crash_count, spawned, child_opt,
                    ops, stop_seen, mon_restarts, spawn_fails >>
    /\ UNCHANGED rpc_vars /\ UNCHANGED os_vars
    /\ UNCHANGED fixed_vars /\ UNCHANGED ext_vars /\ UNCHANGED host_vars

\* the cap compared with >= instead of >: one restart too few
CapExceededOffByOne(attempts) == max_restarts > 0 /\ attempts >= max_restarts

\* the cap compared without the test for 0
CapIgnoresZero(attempts) == attempts > max_restarts

\* process.rs:258: the restart cap is exceeded (max_restarts = 0 means unlimited)
CapExceeded(attempts) == max_restarts > 0 /\ attempts > max_restarts

\* process.rs:257-271
MonCount ==
    /\ pc["mon"] = "m_count"
    /\ crash_count' = crash_count + 1
    /\ IF CapExceeded(crash_count + 1)
       THEN /\ state' = Crashed(crash_count + 1)
            /\ pc' = [pc EXCEPT !["mon"] = "m_done"]
       ELSE /\ state' = Restarting(calculate_backoff(crash_count + 1))
            /\ pc' = [pc EXCEPT !["mon"] = "m_sleep"]
    /\ UNCHANGED << child, port, start_time, stdin, spawned, child_opt, ops, stop_seen,
                    mon_restarts, spawn_fails >>
    /\ UNCHANGED rpc_vars /\ UNCHANGED os_vars
    /\ UNCHANGED fixed_vars /\ UNCHANGED ext_vars /\ UNCHANGED host_vars

\* process.rs:272-274: the backoff sleep ends and the monitor calls start()
MonRestart ==
    /\ pc["mon"] = "m_sleep"
    /\ mon_restarts' = mon_restarts + 1
    /\ start_ret' = [start_ret EXCEPT !["mon"] = "none"]
    /\ pc' = [pc EXCEPT !["mon"] = "start_begin"]
    /\ UNCHANGED << stdin, crash_count, spawned, child_opt, ops, stop_seen, spawn_fails >>
    /\ UNCHANGED sup_vars /\ UNCHANGED rpc_vars /\ UNCHANGED os_vars
    /\ UNCHANGED fixed_vars /\ UNCHANGED ext_vars /\ UNCHANGED << host_out, asked, announced, collab >>

\* ------------------------------------------------------------ the child
ChildExit(c) ==
    /\ procs[c] = "alive"
    /\ procs' = [procs EXCEPT ![c] = "exited"]
    /\ UNCHANGED << stdin, stdout, stdin_log, replied >>
    /\ UNCHANGED sup_vars /\ UNCHANGED rpc_vars /\ UNCHANGED task_vars
    /\ UNCHANGED fixed_vars /\ UNCHANGED ext_vars /\ UNCHANGED host_vars

NextSup ==
    \/ \E t \in Tasks : StartBegin(t) \/ SpawnOk(t) \/ SpawnFail(t) \/ StartStore(t)
                        \/ StartWait(t)
    \/ CallStart(MaxOps) \/ StopBegin \/ StopTake \/ StopWait \/ StopFinish
    \/ MonRead \/ MonCheck \/ MonClear \/ MonCount \/ MonRestart
    \/ \E c \in 1..Len(procs) : ChildExit(c)

\* ---------------------------------------------------------- call_rpc()
\* Value::as_u64 / as_i64 / as_str
IsU64(v) == v.t = "num" /\ v.n >= 0
AsI64Or(v, d) == IF v.t = "num" THEN v.n ELSE d
AsStrOr(v, d) == IF v.t = "str" THEN v.s ELSE d

\* process.rs:340-356: what call_rpc makes of the value received on its channel
CallResult(val) ==
    IF JHas(val, "error")
    THEN [k |-> "rpc_error", v |-> JAbsent,
          code |-> AsI64Or(JGet(JGet(val, "error"), "code"), -1),
          msg |-> AsStrOr(JGet(JGet(val, "error"), "message"), "Unknown error")]
    ELSE [k |-> "ok", v |-> val, code |-> 0, msg |-> ""]

\* the counter advanced by two, and not advanced at all
NextIdSkip(id) == id + 2
NextIdStuck(id) == id

\* process.rs:299: the id after the one just taken
NextId(id) == id + 1

\* HashMap::insert / HashMap::remove on pending_requests (id -> the call holding rx)
MapInsert(m, id, n) == [i \in DOMAIN m \cup {id} |-> IF i = id THEN n ELSE m[i]]
MapRemove(m, id) == [i \in DOMAIN m \ {id} |-> m[i]]

\* process.rs:296-301: the n-th invocation of call_rpc takes its id
CallAlloc(n) ==
    /\ n = ncalls + 1
    /\ ncalls' = n
    /\ call_id' = [call_id EXCEPT ![n] = next_rpc_id]
    /\ next_rpc_id' = NextId(next_rpc_id)
    /\ call_pc' = [call_pc EXCEPT ![n] = "insert"]
    /\ UNCHANGED << stdin, pending_requests, chan, ret >>
    /\ UNCHANGED sup_vars /\ UNCHANGED os_vars /\ UNCHANGED task_vars
    /\ UNCHANGED fixed_vars /\ UNCHANGED ext_vars /\ UNCHANGED host_vars

\* process.rs:303-307: a sender already stored under the id is dropped by the insert
CallInsert(n) ==
    /\ call_pc[n] = "insert"
    /\ pending_requests' = MapInsert(pending_requests, call_id[n], n)
    /\ chan' = [m \in Calls |->
                  IF m = n THEN [st |-> "open", v |-> JAbsent]
                  ELSE IF call_id[n] \in DOMAIN pending_requests
                          /\ pending_requests[call_id[n]] = m
                       THEN [st |-> "closed", v |-> JAbsent]
                       ELSE chan[m]]
    /\ call_pc' = [call_pc EXCEPT ![n] = "write"]
    /\ UNCHANGED << stdin, next_rpc_id, call_id, ret, ncalls >>
    /\ UNCHANGED sup_vars /\ UNCHANGED os_vars /\ UNCHANGED task_vars
    /\ UNCHANGED fixed_vars /\ UNCHANGED ext_vars /\ UNCHANGED host_vars

\* the early return taken with the waiter left in the table
LeaveOnFailure(m, id) == m

\* process.rs:319-320, 334-335: the waiter is removed before an early return
RemoveOnFailure(m, id) == MapRemove(m, id)

\* process.rs:316-337: the frame is written under the stdin lock; a write to the
\* pipe of a child that has exited fails, and no handle fails at once.  The guard
\* taken at line 316 lives to the end of the function: it is released by the
\* early returns and is held on while the response is awaited.
CallWrite(n) ==
    /\ call_pc[n] = "write"
    /\ stdin_guard = 0
    /\ IF stdin # 0 /\ procs[stdin] = "alive"
       THEN /\ stdin_log' = [stdin_log EXCEPT ![stdin] = Append(@, call_id[n])]
            /\ call_pc' = [call_pc EXCEPT ![n] = "await"]
            /\ stdin_guard' = n
            /\ UNCHANGED << pending_requests, ret >>
       ELSE /\ pending_requests' = RemoveOnFailure(pending_requests, call_id[n])
            /\ ret' = [ret EXCEPT ![n] =
                          RetErr(IF stdin # 0 THEN "write_failed" ELSE "no_stdin")]
            /\ call_pc' = [call_pc EXCEPT ![n] = "done"]
            /\ UNCHANGED << stdin_log, stdin_guard >>
    /\ UNCHANGED << stdin, next_rpc_id, call_id, chan, ncalls, procs, stdout, replied >>
    /\ UNCHANGED sup_vars /\ UNCHANGED task_vars
    /\ UNCHANGED fixed_vars /\ UNCHANGED aux_vars /\ UNCHANGED host_vars

\* process.rs:339-356: the channel delivered a value; returning drops the guard
CallRecv(n) ==
    /\ call_pc[n] = "await"
    /\ chan[n].st = "sent"
    /\ ret' = [ret EXCEPT ![n] = CallResult(chan[n].v)]
    /\ call_pc' = [call_pc EXCEPT ![n] = "done"]
    /\ stdin_guard' = 0
    /\ UNCHANGED << stdin, pending_requests, next_rpc_id, call_id, chan, ncalls >>
    /\ UNCHANGED sup_vars /\ UNCHANGED os_vars /\ UNCHANGED task_vars
    /\ UNCHANGED fixed_vars /\ UNCHANGED aux_vars /\ UNCHANGED host_vars

\* the error returned with the waiter left in the table
LeaveOnGiveUp(m, id) == m

\* process.rs:358-359, 363-364: the waiter is removed before the error is returned
RemoveOnGiveUp(m, id) == MapRemove(m, id)

\* process.rs:339, 357-366: the sender was dropped (channel closed), or the 10 s
\* deadline passed with nothing on the channel (timeout)
CallGiveUp(n) ==
    /\ call_pc[n] = "await"
    /\ chan[n].st # "sent"
    /\ pending_requests' = RemoveOnGiveUp(pending_requests, call_id[n])
    /\ ret' = [ret EXCEPT ![n] =
                  RetErr(IF chan[n].st = "closed" THEN "closed" ELSE "timeout")]
    /\ call_pc' = [call_pc EXCEPT ![n] = "done"]
    /\ stdin_guard' = 0
    /\ UNCHANGED << stdin, next_rpc_id, call_id, chan, ncalls >>
    /\ UNCHANGED sup_vars /\ UNCHANGED os_vars /\ UNCHANGED task_vars
    /\ UNCHANGED fixed_vars /\ UNCHANGED aux_vars /\ UNCHANGED host_vars

\* ------------------------------------------------- the child's stdout
ResultFrame(i, r) == JObj([result |-> r, id |-> JNum(i)])
ErrorFrame(i, code, msg) ==
    JObj([error |-> JObj([code |-> JNum(code), message |-> JStr(msg)]), id |-> JNum(i)])

\* results a child may give: {"ok":true}, and an object that has an "error" key
Results == { JObj([ok |-> JTrue]), JObj([error |-> JStr("no such skill")]) }

\* every kind of response frame for id i
AnyReply(i) == { ResultFrame(i, r) : r \in Results }
                  \cup { ErrorFrame(i, -32601, "Method not found") }

\* a child that answers request i with the result {"echo": i}
EchoReply(i) == { ResultFrame(i, JObj([echo |-> JNum(i)])) }

\* the child answers a request it has received with a frame of F, in any order, once
ChildReply(c, i, F) ==
    /\ procs[c] = "alive"
    /\ \E j \in 1..Len(stdin_log[c]) : stdin_log[c][j] = i
    /\ replied[i] = JAbsent
    /\ \E f \in F :
          /\ stdout' = [stdout EXCEPT ![c] = Append(@, [kind |-> "json", val |-> f])]
          /\ replied' = [replied EXCEPT ![i] = f]
    /\ UNCHANGED << stdin, procs, stdin_log >>
    /\ UNCHANGED sup_vars /\ UNCHANGED rpc_vars /\ UNCHANGED task_vars
    /\ UNCHANGED fixed_vars /\ UNCHANGED ext_vars /\ UNCHANGED host_vars

\* process.rs:446-447: the value the reader sends to the waiter
ResponseValue(val) == IF JHas(val, "result") THEN JGet(val, "result") ELSE JNull

\* process.rs:441-443: a response frame carrying an integer id
IsResponse(val) ==
    /\ JHas(val, "result") \/ JHas(val, "error")
    /\ IsU64(JGet(val, "id"))

\* the reader hands the response to the oldest waiter, whatever its id
WaiterOldest(m, id) == m[CHOOSE i \in DOMAIN m : \A j \in DOMAIN m : i <= j]

\* process.rs:445: pending.remove(&id) yields the sender registered under id
Waiter(m, id) == m[id]

\* ------------------------------------------------- port announcements
BasePort == 8080

\* the port in the k-th announcement of child c: no two announcements agree
PortOf(c, k) == BasePort + (c - 1) * MaxAnnounce + (k - 1)

\* the child prints PRYX_CORE_LISTEN_ADDR=127.0.0.1:p
ChildAnnounce(c) ==
    /\ procs[c] = "alive"
    /\ Len(announced[c]) < MaxAnnounce
    /\ LET p == PortOf(c, Len(announced[c]) + 1)
       IN  /\ stdout' = [stdout EXCEPT ![c] = Append(@, [kind |-> "port", val |-> p])]
           /\ announced' = [announced EXCEPT ![c] = Append(@, p)]
    /\ UNCHANGED << stdin, procs, stdin_log, replied >>
    /\ UNCHANGED sup_vars /\ UNCHANGED rpc_vars /\ UNCHANGED task_vars
    /\ UNCHANGED fixed_vars /\ UNCHANGED ext_vars /\ UNCHANGED << start_ret, host_out, asked, collab >>

\* every announcement overwrites the port
LatchLast(cur, p) == p

\* process.rs:429-434: the port is written only while it is None
Latch(cur, p) == IF cur = 0 THEN p ELSE cur

\* --------------------------------------------- requests from the child
Methods == {"permission.request", "notification.show", "clipboard.writeText",
            "clipboard.readText", "updater.check", "updater.install", "skills.list"}

\* what the OS collaborator of a handler does: works (the user approves, an
\* update exists), has nothing (the user denies, no update), or fails
Outcomes == {"ok", "none", "fail"}

RequestFrame(m, i) ==
    JObj([jsonrpc |-> JStr("2.0"), method |-> JStr(m), params |-> JObj(<< >>), id |-> JNum(i)])
\* a notification that carries an id, as a request does
NotificationWithId(m) ==
    JObj([jsonrpc |-> JStr("2.0"), method |-> JStr(m), params |-> JObj(<< >>), id |-> JNum(1)])

\* process.rs:733-737: a notification has no id
NotificationFrame(m) ==
    JObj([jsonrpc |-> JStr("2.0"), method |-> JStr(m), params |-> JObj(<< >>)])

\* the child writes a request with id i, or a notification, to its stdout
ChildRequest(c, i) ==
    /\ procs[c] = "alive"
    /\ asked[i] = JAbsent
    /\ \E m \in Methods : \E f \in {RequestFrame(m, i), NotificationFrame(m)} :
          /\ stdout' = [stdout EXCEPT ![c] = Append(@, [kind |-> "json", val |-> f])]
          /\ asked' = [asked EXCEPT ![i] = f]
    /\ UNCHANGED << stdin, procs, stdin_log, replied >>
    /\ UNCHANGED sup_vars /\ UNCHANGED rpc_vars /\ UNCHANGED task_vars
    /\ UNCHANGED fixed_vars /\ UNCHANGED ext_vars /\ UNCHANGED << start_ret, host_out, announced, collab >>

\* mod.rs:78-84: serde deserialises RpcRequest only with all four fields, id a u64
IsRpcRequest(val) ==
    /\ JGet(val, "jsonrpc").t = "str"
    /\ JGet(val, "method").t = "str"
    /\ JHas(val, "params")
    /\ IsU64(JGet(val, "id"))

ErrorResult(reason) == JObj([error |-> JStr(reason)])
StatusOk == JObj([status |-> JStr("ok")])

\* process.rs:478-726: the result handle_rpc sends for method m when the OS
\* collaborator behaves as o; JAbsent when it returns without send_response
handle_rpc(m, o, app) ==
    CASE m = "permission.request" ->
            IF app THEN JObj([approved |-> IF o = "ok" THEN JTrue ELSE JFalse])
            ELSE JAbsent
      [] m = "notification.show" -> IF app THEN StatusOk ELSE JAbsent
      [] m = "clipboard.writeText" -> IF app THEN StatusOk ELSE JAbsent
      [] m = "clipboard.readText" ->
            JObj([text |-> JStr(IF app /\ o = "ok" THEN "clip" ELSE "")])
      [] m = "updater.check" ->
            IF ~app THEN JAbsent
            ELSE IF o = "ok" THEN JObj([available |-> JTrue])
            ELSE IF o = "none" THEN JObj([available |-> JFalse])
            ELSE ErrorResult("updater failed")
      [] m = "updater.install" ->
            IF ~app THEN JAbsent
            ELSE IF o = "ok" THEN JObj([status |-> JStr("installed"), restart |-> JTrue])
            ELSE IF o = "none" THEN ErrorResult("No update found to install")
            ELSE ErrorResult("updater failed")
      [] OTHER -> JAbsent

\* mod.rs:88-92: RpcResponse as serialised
ResponseFrame(r, i) == JObj([jsonrpc |-> JStr("2.0"), result |-> r, id |-> JNum(i)])

\* process.rs:758-775: send_response, once it has the lock of stdin (762), writes
\* to the stdin handle held, if any; a
\* write to the pipe of a child that has exited fails and nothing is delivered
send_response(out, r, i) ==
    IF r # JAbsent /\ stdin # 0 /\ procs[stdin] = "alive"
    THEN [out EXCEPT ![stdin] = Append(@, ResponseFrame(r, i))]
    ELSE out

\* process.rs:422-460: the stdout reader task of child c takes one line: a port
\* announcement, a response to a pending call, a request for the host, or a log
ReadLine(c) ==
    /\ stdout[c] # << >>
    /\ stdout' = [stdout EXCEPT ![c] = Tail(@)]
    /\ LET line == Head(stdout[c])
           id == JGet(line.val, "id").n
       IN  IF line.kind = "port"
           THEN /\ port' = Latch(port, line.val)
                /\ UNCHANGED << pending_requests, chan, host_out, collab >>
           ELSE IF JHas(line.val, "result") \/ JHas(line.val, "error")
           THEN /\ IF IsResponse(line.val) /\ id \in DOMAIN pending_requests
                   THEN /\ pending_requests' = MapRemove(pending_requests, id)
                        /\ chan' = [chan EXCEPT ![Waiter(pending_requests, id)] =
                                       [st |-> "sent", v |-> ResponseValue(line.val)]]
                   ELSE UNCHANGED << pending_requests, chan >>
                /\ UNCHANGED << port, host_out, collab >>
           ELSE IF JHas(line.val, "method") /\ IsRpcRequest(line.val)
           THEN /\ \E o \in Outcomes :
                      /\ handle_rpc(JGet(line.val, "method").s, o, app_handle) # JAbsent
                            => stdin_guard = 0
                      /\ host_out' = send_response(host_out,
                                         handle_rpc(JGet(line.val, "method").s, o, app_handle), id)
                      /\ collab' = [collab EXCEPT ![id] = o]
                /\ UNCHANGED << port, pending_requests, chan >>
           ELSE UNCHANGED << port, pending_requests, chan, host_out, collab >>
    /\ UNCHANGED << state, child, start_time, stdin, next_rpc_id, call_pc, call_id, ret,
                    ncalls, procs, stdin_log, replied >>
    /\ UNCHANGED task_vars
    /\ UNCHANGED fixed_vars /\ UNCHANGED ext_vars /\ UNCHANGED << start_ret, asked, announced >>

\* call_rpc invocations, concurrent, against a child that echoes
NextRpc ==
    \/ \E n \in Calls : CallAlloc(n) \/ CallInsert(n) \/ CallWrite(n) \/ CallRecv(n)
                        \/ CallGiveUp(n)
    \/ \E c \in 1..Len(procs) : \E i \in Ids : ChildReply(c, i, EchoReply(i))
    \/ \E c \in 1..Len(procs) : ReadLine(c)

\* one call_rpc invocation, answered by any kind of response frame
NextOneCall ==
    \/ CallAlloc(1) \/ CallInsert(1) \/ CallWrite(1) \/ CallRecv(1) \/ CallGiveUp(1)
    \/ \E c \in 1..Len(procs) : \E i \in Ids : ChildReply(c, i, AnyReply(i))
    \/ \E c \in 1..Len(procs) : ReadLine(c)

\* the supervisor as the RPC claims need it: start() called again replaces the
\* child, the child may exit at any time
NextLife ==
    \/ StartBegin("ctl") \/ SpawnOk("ctl") \/ StartStore("ctl") \/ StartWait("ctl")
    \/ CallStart(MaxStarts)
    \/ \E c \in 1..Len(procs) : ChildExit(c)

Spec == Init /\ [][NextSup]_vars

RpcSpec == Init /\ [][NextLife \/ NextRpc]_vars

FrameSpec == Init /\ [][NextLife \/ NextOneCall]_vars

\* the supervisor watched by its monitor: start() from the API, crashes, restarts
NextWatch ==
    \/ \E t \in Tasks : StartBegin(t) \/ SpawnOk(t) \/ StartStore(t) \/ StartWait(t)
    \/ CallStart(MaxStarts)
    \/ MonRead \/ MonCheck \/ MonClear \/ MonCount \/ MonRestart
    \/ \E c \in 1..Len(procs) : ChildExit(c)

ExitSpec == Init /\ [][NextWatch \/ NextOneCall]_vars

\* the supervisor driven through its API alone: start(), stop(), spawn refusals
NextApi ==
    \/ StartBegin("ctl") \/ SpawnOk("ctl") \/ SpawnFail("ctl") \/ StartStore("ctl")
    \/ StartWait("ctl")
    \/ CallStart(MaxOps) \/ StopBegin \/ StopTake \/ StopWait \/ StopFinish
    \/ \E c \in 1..Len(procs) : ChildExit(c)

\* the children announce ports and the readers latch them
NextPort ==
    \/ \E c \in 1..Len(procs) : ChildAnnounce(c)
    \/ \E c \in 1..Len(procs) : ReadLine(c)

\* the API with one call_rpc invocation and the child's replies
StopSpec == Init /\ [][NextApi \/ NextOneCall]_vars

\* the child sends requests and notifications to the host
NextInbound ==
    \/ \E c \in 1..Len(procs) : \E i \in ReqIds : ChildRequest(c, i)
    \/ \E c \in 1..Len(procs) : ReadLine(c)

InboundSpec == Init /\ [][NextLife \/ NextInbound]_vars

PortSpec == Init /\ [][NextApi \/ NextPort]_vars

\* start() and stop() from the API, stop() taken signal by signal, under the monitor
NextSignal ==
    \/ \E t \in Tasks : StartBegin(t) \/ SpawnOk(t) \/ SpawnFail(t) \/ StartStore(t)
                        \/ StartWait(t)
    \/ CallStart(MaxOps) \/ StopBegin \/ StopTake \/ StopFinish
    \/ StopTerm \/ StopExited \/ StopKill \/ StopReap
    \/ MonRead \/ MonCheck \/ MonClear \/ MonCount \/ MonRestart
    \/ \E c \in 1..Len(procs) : ChildExit(c)

SignalSpec == Init /\ [][NextSignal]_vars

\* one start() from the API, then the monitor alone restarts the child
NextBoot ==
    \/ \E t \in Tasks : StartBegin(t) \/ SpawnOk(t) \/ StartStore(t) \/ StartWait(t)
    \/ CallStart(MaxBoot)
    \/ MonRead \/ MonCheck \/ MonClear \/ MonCount \/ MonRestart
    \/ \E c \in 1..Len(procs) : ChildExit(c)

CrashPortSpec == Init /\ [][NextBoot \/ NextPort]_vars

\* child c exits after the start() that spawned it has waited start_timeout
\* for a port and returned
LongRunExit(c) ==
    /\ \E t \in Tasks : spawned[t] = c /\ start_ret[t] = "ok_timeout"
    /\ ChildExit(c)

\* one start() from the API under the monitor, no port ever announced, every
\* child running for at least start_timeout
LongRunSpec ==
    Init /\ [][\/ \E t \in Tasks : StartBegin(t) \/ SpawnOk(t) \/ StartStore(t) \/ StartWait(t)
               \/ CallStart(MaxBoot)
               \/ MonRead \/ MonCheck \/ MonClear \/ MonCount \/ MonRestart
               \/ \E c \in 1..Len(procs) : LongRunExit(c)]_vars

\* the monitor with max_restarts = 0, followed for MaxCrashes child exits
NextUnlimited ==
    \/ \E t \in Tasks : StartBegin(t) \/ SpawnOk(t) \/ StartStore(t) \/ StartWait(t)
    \/ CallStart(MaxBoot)
    \/ MonRead \/ MonCheck \/ MonClear \/ MonRestart
    \/ (crash_count < MaxCrashes /\ MonCount)
    \/ \E c \in 1..Len(procs) : ChildExit(c)

UnlimitedSpec == InitUnlimited /\ [][NextUnlimited]_vars

\* the runtime wakes a call_rpc future when its channel has a value or is
\* closed, and the timer wakes it when the 10 s deadline passes
LiveSpec ==
    /\ Init /\ [][NextLife \/ NextOneCall]_vars
    /\ \A n \in Calls : WF_vars(CallRecv(n) \/ CallGiveUp(n))

\* ======================================================== lifecycle claims

\* C1: once stop() has been called, and until start() is called again, no new
\* child is spawned (the supervisor stays without a child).
C1_NoSpawnAfterStop == [][stop_seen => Len(procs') = Len(procs)]_vars

\* C10: with max_restarts = m > 0 the monitor calls start() at most m times; it
\* gives up exactly when it counts crash m+1, having restarted m times, and
\* the Crashed state it sets carries attempts = m+1; when start() was called
\* once and every spawn succeeded, m+1 children were spawned in total and none
\* is spawned afterwards.
C10_CrashLoopCapped ==
    /\ mon_restarts <= MaxRestarts
    /\ pc["mon"] = "m_done" =>
          /\ mon_restarts = MaxRestarts
          /\ crash_count = MaxRestarts + 1
    /\ state.tag = "Crashed" =>
          /\ state.arg = MaxRestarts + 1
          /\ pc["mon"] = "m_done"
    /\ (pc["mon"] = "m_done" /\ ops = 1 /\ ~stop_seen /\ spawn_fails = 0
        /\ pc["ctl"] = "idle") => Len(procs) = MaxRestarts + 1

\* C10 case: one start(), every child exited, the monitor restarted it m times
\* and then set Crashed{attempts: m+1}
C10_Witness ==
    /\ state = Crashed(MaxRestarts + 1)
    /\ pc["mon"] = "m_done"
    /\ ops = 1 /\ ~stop_seen /\ spawn_fails = 0 /\ pc["ctl"] = "idle"
    /\ mon_restarts = MaxRestarts
    /\ Len(procs) = MaxRestarts + 1
    /\ \A c \in 1..Len(procs) : procs[c] # "alive"
\* ============================================================== RPC claims

\* ids written to child c, and the child whose stdin received the frame of call n
WrittenIds(c) == { stdin_log[c][j] : j \in 1..Len(stdin_log[c]) }
WrittenTo(n) == CHOOSE c \in 1..Len(procs) : call_id[n] \in WrittenIds(c)
Ended(n) == call_pc[n] = "done"

\* C2: no entry of a call_rpc() invocation stays in pending_requests after the
\* invocation has returned, however it ended; the table holds entries only of
\* invocations still in progress, so it is empty when none is.
C2_NoLeak ==
    /\ \A n \in Calls : Ended(n) =>
          /\ call_id[n] \notin DOMAIN pending_requests
          /\ \A i \in DOMAIN pending_requests : pending_requests[i] # n
    /\ \A i \in DOMAIN pending_requests :
          call_pc[pending_requests[i]] \in {"write", "await"}

\* C2 case: one call ended on a failed or impossible write, another timed out
\* after its frame was written, and the table is empty again
C2_Witness ==
    /\ pending_requests = << >>
    /\ \E n \in Calls : ret[n].k \in {"no_stdin", "write_failed"}
    /\ \E n \in Calls : ret[n].k = "timeout" /\ stdin_log[WrittenTo(n)] # << >>

\* C3: a call_rpc() still awaiting its response once the monitor has seen the
\* exit of the child it wrote to, and dropped that child's handle, does not end
\* with the timeout error (the exit has failed it with channel-closed).
C3_ExitCancelsWaiters ==
    [][\A n \in Calls :
          (/\ call_pc[n] = "await"
           /\ procs[WrittenTo(n)] = "reaped" /\ child # WrittenTo(n)
           /\ Ended(n)')
              => ret'[n].k # "timeout"]_vars

\* C4: a call_rpc() answered by an error frame returns an error carrying the
\* frame's code and message, never success.
C4_ErrorFrameSurfaced ==
    \A n \in Calls :
        (Ended(n) /\ ret[n].k \in {"ok", "rpc_error"}
         /\ JHas(replied[call_id[n]], "error")) =>
            /\ ret[n].k = "rpc_error"
            /\ JNum(ret[n].code) = JGet(JGet(replied[call_id[n]], "error"), "code")
            /\ JStr(ret[n].msg) = JGet(JGet(replied[call_id[n]], "error"), "message")

\* C5: a call_rpc() answered by a result frame returns success with exactly the
\* frame's result, whatever JSON value that is.
C5_ResultReturnedVerbatim ==
    \A n \in Calls :
        (Ended(n) /\ ret[n].k \in {"ok", "rpc_error"}
         /\ JHas(replied[call_id[n]], "result")) =>
            /\ ret[n].k = "ok"
            /\ ret[n].v = JGet(replied[call_id[n]], "result")

\* a call that returns success returns the result of the frame that carries its
\* own id
MatchedById ==
    \A n \in Calls : ret[n].k = "ok" =>
        /\ JGet(replied[call_id[n]], "id") = JNum(call_id[n])
        /\ ret[n].v = JGet(replied[call_id[n]], "result")
        /\ ret[n].v = JObj([echo |-> JNum(call_id[n])])

\* C6: several call() invocations can await their responses at the same time,
\* so an invocation that has registered its waiter can write its frame while
\* another one awaits; and with replies in any order a call that returns
\* success returns the result of the frame that carries its own id.
C6_MatchedById ==
    /\ \A n \in Calls : call_pc[n] = "write" => ENABLED CallWrite(n)
    /\ MatchedById

Fates == {"ok", "rpc_error", "timeout", "closed"}

\* C9: a call_rpc() whose frame was written eventually returns, with the
\* response, the timeout error or the channel-closed error, and its id is then
\* not in pending_requests; when the child has sent no reply for the id, what
\* the call returns is the timeout error.
C9_CallTerminates ==
    /\ \A n \in Calls :
          (call_pc[n] = "await") ~>
              (Ended(n) /\ ret[n].k \in Fates
               /\ call_id[n] \notin DOMAIN pending_requests)
    /\ [](\A n \in Calls :
            (Ended(n) /\ ret[n].k \in Fates /\ replied[call_id[n]] = JAbsent)
                => ret[n].k = "timeout")

\* C9 case: the frame was written, the child never replied, the call returned
\* the timeout error and the table holds no entry
C9_Witness ==
    /\ \E n \in Calls :
          /\ Ended(n) /\ ret[n].k = "timeout"
          /\ replied[call_id[n]] = JAbsent
          /\ stdin_log[WrittenTo(n)] # << >>
    /\ pending_requests = << >>
\* ------------------------------------------------------- HTTP surface
Bearer == << "B", "e", "a", "r", "e", "r", " " >>
CookieKey == << "p", "r", "y", "x", "_", "a", "d", "m", "i", "n", "_", "t", "o", "k", "e", "n" >>
ThemeKey == << "t", "h", "e", "m", "e" >>

\* a token that differs from the admin token in every character
OtherToken == [i \in 1..TokenLen |-> "z"]

\* the Cookie header a client sends for a list of name=value pairs
RECURSIVE CookieText(_)
CookieText(pairs) ==
    IF pairs = << >> THEN << >>
    ELSE Head(pairs)[1] \o << "=" >> \o Head(pairs)[2]
         \o (IF Len(pairs) > 1 THEN << ";", " " >> ELSE << >>) \o CookieText(Tail(pairs))

\* Authorization headers a client may send
AuthHeaders ==
    { None, Some(Bearer \o admin_token), Some(Bearer \o OtherToken), Some(admin_token),
      Some(Bearer \o admin_token \o << "x" >>) }

\* cookie lists a client may send: none, one cookie, or theme=... before one cookie
CookieLists ==
    LET names == { CookieKey, << "x" >> \o CookieKey, ThemeKey }
        values == { admin_token, admin_token \o << "x" >>, << "x" >> \o admin_token,
                    OtherToken }
        one == { << << n, v >> >> : n \in names, v \in values }
    IN  { << >> } \cup one \cup { << << ThemeKey, << "d" >> >> >> \o p : p \in one }

\* auth.rs:9-45: the status the middleware answers, or 0 when it calls next.run
auth_middleware(ext, sidecar, auth, cookie, expected_token) ==
    IF ~ext THEN 500
    ELSE IF ~sidecar THEN 503
    ELSE IF auth.some /\ auth.v = Bearer \o expected_token THEN 0
    ELSE IF cookie.some /\ Contains(cookie.v, CookieKey \o << "=" >> \o expected_token) THEN 0
    ELSE 401

\* a client sends a request for a route under /api; the request extensions hold a
\* ServerConfig only if the stack around app_router put one there
ApiRequest ==
    /\ http.st \in {"idle", "done"}
    /\ http.n < MaxExchanges
    /\ \E a \in AuthHeaders, cs \in CookieLists, e \in BOOLEAN, sc \in BOOLEAN :
          http' = [NoExchange EXCEPT !.st = "mw", !.n = http.n + 1, !.auth = a, !.cookies = cs,
                      !.cookie = IF cs = << >> THEN None ELSE Some(CookieText(cs)),
                      !.ext = e, !.sidecar = sc]
    /\ UNCHANGED << sigs, admin_token, max_restarts, calc, perm, dialog, stdin_guard, wr, wire, stdin >>
    /\ UNCHANGED sup_vars /\ UNCHANGED rpc_vars /\ UNCHANGED os_vars /\ UNCHANGED task_vars
    /\ UNCHANGED fixed_vars /\ UNCHANGED host_vars

\* routes.rs:135: the layer runs auth_middleware before any /api handler
AuthMiddleware ==
    /\ http.st = "mw"
    /\ LET r == auth_middleware(http.ext, http.sidecar, http.auth, http.cookie, admin_token)
       IN  http' = IF r = 0 THEN [http EXCEPT !.st = "handler", !.reached = TRUE]
                   ELSE [http EXCEPT !.st = "done", !.status = r]
    /\ UNCHANGED << sigs, admin_token, max_restarts, calc, perm, dialog, stdin_guard, wr, wire, stdin >>
    /\ UNCHANGED sup_vars /\ UNCHANGED rpc_vars /\ UNCHANGED os_vars /\ UNCHANGED task_vars
    /\ UNCHANGED fixed_vars /\ UNCHANGED host_vars

\* handlers.rs:12-13, 20-22: the handler enters rpc_call, which calls call_rpc on
\* the supervisor if the configuration holds one
RpcCallEnter ==
    /\ http.st = "handler"
    /\ IF http.sidecar
       THEN /\ ncalls < MaxProxy
            /\ http' = [http EXCEPT !.st = "rpc", !.call = ncalls + 1]
       ELSE http' = [http EXCEPT !.st = "done", !.status = 503]
    /\ UNCHANGED << sigs, admin_token, max_restarts, calc, perm, dialog, stdin_guard, wr, wire, stdin >>
    /\ UNCHANGED sup_vars /\ UNCHANGED rpc_vars /\ UNCHANGED os_vars /\ UNCHANGED task_vars
    /\ UNCHANGED fixed_vars /\ UNCHANGED host_vars

\* the call_rpc invocation of the handler takes its id
HttpCallAlloc(n) == http.st = "rpc" /\ http.call = n /\ CallAlloc(n)

\* handlers.rs:14-18: Ok(res) is Json(res) with status 200, Err(e) is status 500
\* with e.to_string() as the body
rpc_call(r) ==
    IF r.k = "ok" THEN [status |-> 200, body |-> r.v, text |-> ""]
    ELSE [status |-> 500, body |-> JAbsent, text |-> r.k]

\* call_rpc has returned to rpc_call
RpcCallReturn ==
    /\ http.st = "rpc"
    /\ call_pc[http.call] = "done"
    /\ LET resp == rpc_call(ret[http.call])
       IN  http' = [http EXCEPT !.st = "done", !.status = resp.status,
                                !.body = resp.body, !.text = resp.text]
    /\ UNCHANGED << sigs, admin_token, max_restarts, calc, perm, dialog, stdin_guard, wr, wire, stdin >>
    /\ UNCHANGED sup_vars /\ UNCHANGED rpc_vars /\ UNCHANGED os_vars /\ UNCHANGED task_vars
    /\ UNCHANGED fixed_vars /\ UNCHANGED host_vars

\* the supervisor started once, with a child that may exit
NextServe ==
    \/ StartBegin("ctl") \/ SpawnOk("ctl") \/ StartStore("ctl") \/ StartWait("ctl")
    \/ CallStart(MaxBoot)
    \/ \E c \in 1..Len(procs) : ChildExit(c)

\* requests under /api, proxied to the child, which answers with any frame
NextHttp ==
    \/ ApiRequest \/ AuthMiddleware \/ RpcCallEnter \/ RpcCallReturn
    \/ \E n \in Calls : HttpCallAlloc(n) \/ CallInsert(n) \/ CallWrite(n) \/ CallRecv(n)
                        \/ CallGiveUp(n)
    \/ \E c \in 1..Len(procs) : \E i \in Ids : ChildReply(c, i, AnyReply(i))
    \/ \E c \in 1..Len(procs) : ReadLine(c)

HttpSpec == Init /\ [][NextServe \/ NextHttp]_vars

\* ------------------------------------------------------- static files
DotDot == << ".", "." >>
CurDir == << "." >>
IndexHtml == << "i", "n", "d", "e", "x", ".", "h", "t", "m", "l" >>
AppJs == << "a", "p", "p", ".", "j", "s" >>

\* config.static_files_path, already canonical
StaticRoot == << << "s", "r", "v" >>, << "w", "w", "w" >> >>
Etc == << << "e", "t", "c" >> >>

\* the disk: the root with index.html, app.js, a directory, a symlink to a
\* directory outside the root and a symlink to a file outside the root
Disk ==
    LET dir == [kind |-> "dir", to |-> << >>, content |-> ""]
        file(c) == [kind |-> "file", to |-> << >>, content |-> c]
        link(t) == [kind |-> "link", to |-> t, content |-> ""]
    IN  ( << >> :> dir ) @@ ( << << "s", "r", "v" >> >> :> dir ) @@ ( StaticRoot :> dir )
        @@ ( Etc :> dir ) @@ ( Append(Etc, << "p", "w" >>) :> file("secret") )
        @@ ( Append(StaticRoot, IndexHtml) :> file("index") )
        @@ ( Append(StaticRoot, AppJs) :> file("app") )
        @@ ( Append(StaticRoot, << "i", "m", "g" >>) :> dir )
        @@ ( Append(StaticRoot, << "o", "u", "t" >>) :> link(Etc) )
        @@ ( Append(StaticRoot, << "l", "n" >>) :> link(Append(Etc, << "p", "w" >>)) )

\* what the OS finds at a path it walks from the canonical directory cur,
\* following symlinks: the canonical location and kind, or an error
RECURSIVE Walk(_, _)
Walk(cur, rest) ==
    IF rest = << >> THEN [kind |-> Disk[cur].kind, at |-> cur]
    ELSE IF Disk[cur].kind # "dir" THEN [kind |-> "notdir", at |-> cur]
    ELSE IF Head(rest) = CurDir THEN Walk(cur, Tail(rest))
    ELSE LET next == Append(cur, Head(rest))
         IN  IF next \notin DOMAIN Disk THEN [kind |-> "notfound", at |-> next]
             ELSE IF Disk[next].kind = "link" THEN Walk(Disk[next].to, Tail(rest))
             ELSE Walk(next, Tail(rest))

\* Path::starts_with, by components
StartsWith(p, base) == Len(p) >= Len(base) /\ SubSeq(p, 1, Len(base)) = base

\* str::trim_start_matches('/') on a path given by its segments
RECURSIVE TrimStart(_)
TrimStart(segs) ==
    IF segs # << >> /\ Head(segs) = << >> THEN TrimStart(Tail(segs)) ELSE segs

\* routes.rs:22-92: the response to a request whose uri path, split at '/', is segs
static_files_handler(segs) ==
    LET path == TrimStart(segs)
        Keep(seg) == seg # << >> /\ seg # DotDot
        sanitized_path == SelectSeq(path, Keep)
        target_path ==
            IF sanitized_path = << >> \/ path = << >> \/ path = << IndexHtml >>
            THEN Append(StaticRoot, IndexHtml)
            ELSE StaticRoot \o sanitized_path
        found == Walk(<< >>, target_path)
    IN  IF StaticRoot \notin DOMAIN Disk THEN [status |-> 500, content |-> ""]
        ELSE IF \E j \in 1..Len(path) : Contains(path[j], DotDot)
        THEN [status |-> 400, content |-> ""]
        ELSE IF ~StartsWith(target_path, StaticRoot) THEN [status |-> 403, content |-> ""]
        ELSE IF found.kind = "file" THEN [status |-> 200, content |-> Disk[found.at].content]
        ELSE IF found.kind \in {"dir", "notfound"} THEN [status |-> 404, content |-> ""]
        ELSE [status |-> 500, content |-> ""]

\* segments a client may put between the slashes of a path
Segments ==
    { << >>, DotDot, CurDir, IndexHtml, AppJs, << "i", "m", "g" >>, << "o", "u", "t" >>,
      << "l", "n" >>, << "p", "w" >>, << "a", ".", ".", "b" >> }

RECURSIVE SeqsUpTo(_, _)
SeqsUpTo(S, n) ==
    IF n = 0 THEN { << >> }
    ELSE LET shorter == SeqsUpTo(S, n - 1)
         IN  shorter \cup { Append(q, x) : q \in shorter, x \in S }

\* a client requests a path no route matches: the fallback takes it
StaticRequest ==
    /\ http.st \in {"idle", "done"}
    /\ http.n < MaxExchanges
    /\ \E p \in SeqsUpTo(Segments, MaxSegments) :
          http' = [NoExchange EXCEPT !.st = "static", !.n = http.n + 1, !.path = p]
    /\ UNCHANGED << sigs, admin_token, max_restarts, calc, perm, dialog, stdin_guard, wr, wire, stdin >>
    /\ UNCHANGED sup_vars /\ UNCHANGED rpc_vars /\ UNCHANGED os_vars /\ UNCHANGED task_vars
    /\ UNCHANGED fixed_vars /\ UNCHANGED host_vars

\* routes.rs:144: the fallback answers
StaticFilesHandler ==
    /\ http.st = "static"
    /\ LET resp == static_files_handler(http.path)
       IN  http' = [http EXCEPT !.st = "done", !.status = resp.status,
                                !.content = resp.content]
    /\ UNCHANGED << sigs, admin_token, max_restarts, calc, perm, dialog, stdin_guard, wr, wire, stdin >>
    /\ UNCHANGED sup_vars /\ UNCHANGED rpc_vars /\ UNCHANGED os_vars /\ UNCHANGED task_vars
    /\ UNCHANGED fixed_vars /\ UNCHANGED host_vars

StaticSpec == Init /\ [][StaticRequest \/ StaticFilesHandler]_vars

\* ------------------------------------------------- calculate_backoff
\* A u32 is held as the i32 that has the same 32 bits, so that `attempt as i32`
\* (process.rs:824) is the identity: the values from 2^31 up are the negative ones.
I32Max == 2147483647
I32Min == -2147483647 - 1

\* attempts: the small ones, and the ones around 2^31 and 2^32
Attempts == 0..MaxAttempt \cup {I32Max - 1, I32Max, I32Min, I32Min + 1, -2, -1}

\* the result that stands for a panic
Panicked == -1

BackoffCall ==
    /\ calc.st = "idle"
    /\ \E n \in Attempts : calc' = [NoCall EXCEPT !.st = "called", !.attempt = n]
    /\ UNCHANGED << sigs, admin_token, http, max_restarts, perm, dialog, stdin_guard, wr, wire, stdin >>
    /\ UNCHANGED sup_vars /\ UNCHANGED rpc_vars /\ UNCHANGED os_vars /\ UNCHANGED task_vars
    /\ UNCHANGED fixed_vars /\ UNCHANGED host_vars

\* process.rs:821-827; for attempt = 2^31 the subtraction overflows i32: a build
\* with overflow checks panics, one without wraps to i32::MAX
BackoffReturn ==
    /\ calc.st = "called"
    /\ \E r \in IF calc.attempt = I32Min
                THEN {Panicked, InitialBackoffMs * Pow(BackoffMultiplier,
                                                      Clamp(I32Max, 0, MaxBackoffExp))}
                ELSE {calculate_backoff(calc.attempt)} :
          calc' = [calc EXCEPT !.st = "ret", !.backoff = r]
    /\ UNCHANGED << sigs, admin_token, http, max_restarts, perm, dialog, stdin_guard, wr, wire, stdin >>
    /\ UNCHANGED sup_vars /\ UNCHANGED rpc_vars /\ UNCHANGED os_vars /\ UNCHANGED task_vars
    /\ UNCHANGED fixed_vars /\ UNCHANGED host_vars

BackoffSpec == Init /\ [][BackoffCall \/ BackoffReturn]_vars

\* --------------------------------------------- extract_port_from_line
ListenPrefix ==
    << "P", "R", "Y", "X", "_", "C", "O", "R", "E", "_", "L", "I", "S", "T", "E", "N", "_",
       "A", "D", "D", "R", "=" >>

\* char::is_numeric, on the characters of the model; and the digit's value
DigitVal ==
    ("0" :> 0) @@ ("1" :> 1) @@ ("2" :> 2) @@ ("3" :> 3) @@ ("4" :> 4) @@ ("5" :> 5)
    @@ ("6" :> 6) @@ ("7" :> 7) @@ ("8" :> 8) @@ ("9" :> 9)
IsNumeric(c) == c \in DOMAIN DigitVal

\* the number a run of digits denotes, held at U16Max + 1 once it is above U16Max
RECURSIVE DigitsValue(_, _)
DigitsValue(ds, acc) ==
    IF ds = << >> THEN acc
    ELSE LET next == acc * 10 + DigitVal[Head(ds)]
         IN  DigitsValue(Tail(ds), IF next > U16Max THEN U16Max + 1 ELSE next)

\* str::parse::<u16>: an optional +, then digits only, at least one, value in range
ParseU16(str) ==
    LET ds == IF str # << >> /\ Head(str) = "+" THEN Tail(str) ELSE str
    IN  IF ds # << >> /\ (\A j \in 1..Len(ds) : IsNumeric(ds[j]))
           /\ DigitsValue(ds, 0) <= U16Max
        THEN Some(DigitsValue(ds, 0)) ELSE None

\* str::strip_prefix
StripPrefix(str, pre) ==
    IF Len(str) >= Len(pre) /\ SubSeq(str, 1, Len(pre)) = pre
    THEN Some(SubSeq(str, Len(pre) + 1, Len(str))) ELSE None

\* str::trim: the text between the first and the last character that is not a space
Trim(str) ==
    LET kept == { j \in 1..Len(str) : str[j] # " " }
    IN  IF kept = {} THEN << >>
        ELSE SubSeq(str, CHOOSE j \in kept : \A k \in kept : j <= k,
                         CHOOSE j \in kept : \A k \in kept : j >= k)

\* str::rfind(':'), counted from 1; 0 when there is none
RFind(str) ==
    IF \E j \in 1..Len(str) : str[j] = ":"
    THEN CHOOSE j \in 1..Len(str) : str[j] = ":" /\ \A k \in (j + 1)..Len(str) : str[k] # ":"
    ELSE 0

\* str::rsplit(':').next(): the text after the last ':', all of it if there is none
RSplitFirst(str) == SubSeq(str, RFind(str) + 1, Len(str))

\* skip_while(!is_numeric) and take_while(is_numeric)
RECURSIVE SkipNonNumeric(_)
SkipNonNumeric(str) ==
    IF str # << >> /\ ~IsNumeric(Head(str)) THEN SkipNonNumeric(Tail(str)) ELSE str
RECURSIVE TakeNumeric(_)
TakeNumeric(str) ==
    IF str # << >> /\ IsNumeric(Head(str)) THEN << Head(str) >> \o TakeNumeric(Tail(str))
    ELSE << >>

\* process.rs:795-819
extract_port_from_line(line) ==
    LET rest == StripPrefix(line, ListenPrefix)
        first == IF rest.some THEN ParseU16(RSplitFirst(Trim(rest.v))) ELSE None
        idx == RFind(line)
        digits == TakeNumeric(SkipNonNumeric(SubSeq(line, idx + 1, Len(line))))
    IN  IF first.some THEN first
        ELSE IF idx # 0 /\ idx < Len(line) /\ digits # << >> THEN ParseU16(digits)
        ELSE None

\* characters of the lines the model feeds the parser
LineChars == { "0", "7", ":", "x", " ", "+" }

ExtractCall ==
    /\ calc.st = "idle"
    /\ \E pre \in { << >>, ListenPrefix }, body \in SeqsUpTo(LineChars, MaxLine) :
          calc' = [NoCall EXCEPT !.st = "called", !.line = pre \o body]
    /\ UNCHANGED << sigs, admin_token, http, max_restarts, perm, dialog, stdin_guard, wr, wire, stdin >>
    /\ UNCHANGED sup_vars /\ UNCHANGED rpc_vars /\ UNCHANGED os_vars /\ UNCHANGED task_vars
    /\ UNCHANGED fixed_vars /\ UNCHANGED host_vars

ExtractReturn ==
    /\ calc.st = "called"
    /\ calc' = [calc EXCEPT !.st = "ret", !.port = extract_port_from_line(calc.line)]
    /\ UNCHANGED << sigs, admin_token, http, max_restarts, perm, dialog, stdin_guard, wr, wire, stdin >>
    /\ UNCHANGED sup_vars /\ UNCHANGED rpc_vars /\ UNCHANGED os_vars /\ UNCHANGED task_vars
    /\ UNCHANGED fixed_vars /\ UNCHANGED host_vars

ExtractSpec == Init /\ [][ExtractCall \/ ExtractReturn]_vars

\* ------------------------------------------------ the stdout reader, line by line
\* the announcement the child prints once it listens: PRYX_CORE_LISTEN_ADDR=x:7
AnnounceLine ==
    << "P", "R", "Y", "X", "_", "C", "O", "R", "E", "_", "L", "I", "S", "T", "E", "N", "_",
       "A", "D", "D", "R", "=", "x", ":", "7" >>

\* a log line that mentions the port: Listening on :7
ListeningLine ==
    << "L", "i", "s", "t", "e", "n", "i", "n", "g", " ", "o", "n", " ", ":", "7" >>

\* a response whose result mentions a port: {"jsonrpc":"2.0","id":1,"result":{"port":7}}
PortResponseLine ==
    << "{", "\"", "j", "s", "o", "n", "r", "p", "c", "\"", ":", "\"", "2", ".", "0", "\"", ",",
       "\"", "i", "d", "\"", ":", "1", ",", "\"", "r", "e", "s", "u", "l", "t", "\"", ":", "{",
       "\"", "p", "o", "r", "t", "\"", ":", "7", "}", "}" >>

\* a response whose text has neither listening nor port: {"jsonrpc":"2.0","id":1,"result":7}
PlainResponseLine ==
    << "{", "\"", "j", "s", "o", "n", "r", "p", "c", "\"", ":", "\"", "2", ".", "0", "\"", ",",
       "\"", "i", "d", "\"", ":", "1", ",", "\"", "r", "e", "s", "u", "l", "t", "\"", ":", "7",
       "}" >>

\* a request for a method whose name contains port: {"jsonrpc":"2.0","method":"export","params":{},"id":1}
ExportRequestLine ==
    << "{", "\"", "j", "s", "o", "n", "r", "p", "c", "\"", ":", "\"", "2", ".", "0", "\"", ",",
       "\"", "m", "e", "t", "h", "o", "d", "\"", ":", "\"", "e", "x", "p", "o", "r", "t", "\"",
       ",", "\"", "p", "a", "r", "a", "m", "s", "\"", ":", "{", "}", ",", "\"", "i", "d", "\"",
       ":", "1", "}" >>

\* a request whose text has neither listening nor port: {"jsonrpc":"2.0","method":"ping","params":{},"id":1}
PlainRequestLine ==
    << "{", "\"", "j", "s", "o", "n", "r", "p", "c", "\"", ":", "\"", "2", ".", "0", "\"", ",",
       "\"", "m", "e", "t", "h", "o", "d", "\"", ":", "\"", "p", "i", "n", "g", "\"", ",",
       "\"", "p", "a", "r", "a", "m", "s", "\"", ":", "{", "}", ",", "\"", "i", "d", "\"", ":",
       "1", "}" >>

\* a log line that begins with a brace and mentions the port: {port:7
BraceLogLine ==
    << "{", "p", "o", "r", "t", ":", "7" >>

\* str::to_lowercase, on the characters of the model
LowerOf ==
    ("L" :> "l") @@ ("P" :> "p") @@ ("R" :> "r") @@ ("Y" :> "y") @@ ("X" :> "x") @@ ("C" :> "c")
    @@ ("O" :> "o") @@ ("E" :> "e") @@ ("I" :> "i") @@ ("S" :> "s") @@ ("T" :> "t")
    @@ ("N" :> "n") @@ ("A" :> "a") @@ ("D" :> "d")
ToLowercase(str) ==
    [j \in 1..Len(str) |-> IF str[j] \in DOMAIN LowerOf THEN LowerOf[str[j]] ELSE str[j]]

\* process.rs:788-793
extract_port_check(line) ==
    \/ StripPrefix(line, ListenPrefix).some
    \/ Contains(ToLowercase(line), << "l", "i", "s", "t", "e", "n", "i", "n", "g" >>)
    \/ Contains(ToLowercase(line), << "p", "o", "r", "t" >>)

\* serde_json::from_str::<Value>, for text made of objects, strings without
\* escapes and unsigned integers: the index after the value that starts at i and
\* the value's members as (key, kind of value) pairs; end 0 when the text is no JSON
At(str, i) == IF i \in 1..Len(str) THEN str[i] ELSE ""
NoJson == [end |-> 0, members |-> {}]
StringEnd(str, i) ==
    IF \E k \in (i + 1)..Len(str) : str[k] = "\""
    THEN 1 + CHOOSE k \in (i + 1)..Len(str) :
                 str[k] = "\"" /\ \A m \in (i + 1)..(k - 1) : str[m] # "\""
    ELSE 0
KindAt(str, i) ==
    CASE At(str, i) = "\"" -> "str"
      [] At(str, i) = "{" -> "obj"
      [] OTHER -> "num"
RECURSIVE ParseValue(_, _)
RECURSIVE ParseMembers(_, _)
ParseValue(str, i) ==
    CASE At(str, i) = "\"" -> [end |-> StringEnd(str, i), members |-> {}]
      [] At(str, i) = "0" -> [end |-> i + 1, members |-> {}]
      [] At(str, i) # "0" /\ IsNumeric(At(str, i)) ->
            [end |-> i + Len(TakeNumeric(SubSeq(str, i, Len(str)))), members |-> {}]
      [] At(str, i) = "{" ->
            IF At(str, i + 1) = "}" THEN [end |-> i + 2, members |-> {}]
            ELSE ParseMembers(str, i + 1)
      [] OTHER -> NoJson
ParseMembers(str, i) ==
    IF At(str, i) # "\"" \/ StringEnd(str, i) = 0 THEN NoJson
    ELSE LET k == StringEnd(str, i)
             key == SubSeq(str, i + 1, k - 2)
             v == IF At(str, k) = ":" THEN ParseValue(str, k + 1) ELSE NoJson
         IN  IF v.end = 0 THEN NoJson
             ELSE IF At(str, v.end) = "}"
             THEN [end |-> v.end + 1, members |-> { << key, KindAt(str, k + 1) >> }]
             ELSE IF At(str, v.end) = ","
             THEN LET more == ParseMembers(str, v.end + 1)
                  IN  IF more.end = 0 THEN NoJson
                      ELSE [end |-> more.end,
                            members |-> more.members \cup { << key, KindAt(str, k + 1) >> }]
             ELSE NoJson
from_str(line) ==
    LET body == Trim(line)
        v == ParseValue(body, 1)
    IN  IF body # << >> /\ v.end = Len(body) + 1
        THEN [ok |-> TRUE, obj |-> At(body, 1) = "{", members |-> v.members]
        ELSE [ok |-> FALSE, obj |-> FALSE, members |-> {}]

\* Value::get(key).is_some(), and the kind of the member's value
HasKey(val, key) == \E m \in val.members : m[1] = key
KeyIs(val, key, kind) == << key, kind >> \in val.members
KeyResult == << "r", "e", "s", "u", "l", "t" >>
KeyError == << "e", "r", "r", "o", "r" >>
KeyMethod == << "m", "e", "t", "h", "o", "d" >>
KeyId == << "i", "d" >>
KeyJsonrpc == << "j", "s", "o", "n", "r", "p", "c" >>
KeyParams == << "p", "a", "r", "a", "m", "s" >>

\* process.rs:437-458: what step 3 of the loop does with the line: it hands a
\* response to the waiter's channel, calls handle_rpc for a request, or neither
Dispatch(line) ==
    LET val == from_str(line)
    IN  IF ~(Trim(line) # << >> /\ Head(Trim(line)) = "{" /\ val.ok) THEN "none"
        ELSE IF HasKey(val, KeyResult) \/ HasKey(val, KeyError)
        THEN IF KeyIs(val, KeyId, "num") THEN "response" ELSE "none"
        ELSE IF HasKey(val, KeyMethod)
        THEN IF /\ KeyIs(val, KeyJsonrpc, "str") /\ KeyIs(val, KeyMethod, "str")
                /\ HasKey(val, KeyParams) /\ KeyIs(val, KeyId, "num")
             THEN "request" ELSE "none"
        ELSE "none"

\* the lines the child writes: the samples above and every short line
ReaderLines ==
    { AnnounceLine, ListeningLine, PortResponseLine, PlainResponseLine, ExportRequestLine,
      PlainRequestLine, BraceLogLine }
    \cup SeqsUpTo(LineChars \cup { "{", "}" }, MaxShort)

\* process.rs:421: lines.next_line() returns the child's next line
ClassifyRead ==
    /\ calc.st = "idle"
    /\ \E line \in ReaderLines : calc' = [NoCall EXCEPT !.st = "line", !.line = line]
    /\ UNCHANGED port
    /\ UNCHANGED << sigs, admin_token, http, max_restarts, perm, dialog, stdin_guard, wr, wire, stdin >>
    /\ UNCHANGED << state, child, start_time >>
    /\ UNCHANGED rpc_vars /\ UNCHANGED os_vars /\ UNCHANGED task_vars
    /\ UNCHANGED fixed_vars /\ UNCHANGED host_vars

\* process.rs:425-435: step 2, the port check; a port is latched when none is
\* (a latched port 0 leaves the model's port at 0, which also stands for None)
ClassifyPort ==
    /\ calc.st = "line"
    /\ LET p == extract_port_from_line(calc.line)
           latch == extract_port_check(calc.line) /\ p.some /\ port = 0
       IN  /\ port' = IF latch THEN p.v ELSE port
           /\ calc' = [calc EXCEPT !.st = "rpc", !.latched = latch]
    /\ UNCHANGED << sigs, admin_token, http, max_restarts, perm, dialog, stdin_guard, wr, wire, stdin >>
    /\ UNCHANGED << state, child, start_time >>
    /\ UNCHANGED rpc_vars /\ UNCHANGED os_vars /\ UNCHANGED task_vars
    /\ UNCHANGED fixed_vars /\ UNCHANGED host_vars

\* process.rs:437-458: step 3, the RPC check, on the same line
ClassifyRpc ==
    /\ calc.st = "rpc"
    /\ calc' = [calc EXCEPT !.st = "read", !.frame = Dispatch(calc.line)]
    /\ UNCHANGED port
    /\ UNCHANGED << sigs, admin_token, http, max_restarts, perm, dialog, stdin_guard, wr, wire, stdin >>
    /\ UNCHANGED << state, child, start_time >>
    /\ UNCHANGED rpc_vars /\ UNCHANGED os_vars /\ UNCHANGED task_vars
    /\ UNCHANGED fixed_vars /\ UNCHANGED host_vars

\* process.rs:421: the loop goes round
ClassifyNext ==
    /\ calc.st = "read"
    /\ calc' = NoCall
    /\ UNCHANGED port
    /\ UNCHANGED << sigs, admin_token, http, max_restarts, perm, dialog, stdin_guard, wr, wire, stdin >>
    /\ UNCHANGED << state, child, start_time >>
    /\ UNCHANGED rpc_vars /\ UNCHANGED os_vars /\ UNCHANGED task_vars
    /\ UNCHANGED fixed_vars /\ UNCHANGED host_vars

ClassifySpec == Init /\ [][ClassifyRead \/ ClassifyPort \/ ClassifyRpc \/ ClassifyNext]_vars

\* ------------------------------------- the reader inside a permission dialog
\* the line is a request for permission.request that handle_rpc will take to
\* the dialog: process.rs:449-452 and 479-483, the app handle being there
AsksPermission(line) ==
    /\ line.kind = "json"
    /\ ~(JHas(line.val, "result") \/ JHas(line.val, "error"))
    /\ JHas(line.val, "method") /\ IsRpcRequest(line.val)
    /\ JGet(line.val, "method").s = "permission.request"
    /\ app_handle

\* the reader task of child c is inside handle_rpc(req).await, in blocking_show
InDialog(c) == \E d \in dialog : d.c = c

\* process.rs:422-456: the reader loop takes the next line only after
\* handle_rpc(req).await of the line before has returned
ReadOther(c) ==
    /\ ~InDialog(c)
    /\ stdout[c] # << >>
    /\ ~AsksPermission(Head(stdout[c]))
    /\ ReadLine(c)

\* process.rs:451-456 and 494-498: the reader takes a permission.request line,
\* awaits handle_rpc inline, and handle_rpc calls blocking_show
DialogShow(c) ==
    /\ ~InDialog(c)
    /\ stdout[c] # << >>
    /\ AsksPermission(Head(stdout[c]))
    /\ stdout' = [stdout EXCEPT ![c] = Tail(@)]
    /\ dialog' = dialog \cup { [c |-> c, id |-> JGet(Head(stdout[c]).val, "id").n] }
    /\ UNCHANGED << sigs, admin_token, http, max_restarts, calc, perm, stdin_guard, wr, wire, stdin >>
    /\ UNCHANGED << procs, stdin_log, replied >>
    /\ UNCHANGED sup_vars /\ UNCHANGED rpc_vars /\ UNCHANGED task_vars
    /\ UNCHANGED fixed_vars /\ UNCHANGED host_vars

\* process.rs:498-514: the user answers, blocking_show returns, the response is
\* sent and the reader goes back to its loop
DialogReturn(c) ==
    /\ stdin_guard = 0
    /\ \E d \in dialog, o \in { "ok", "none" } :
          /\ d.c = c
          /\ dialog' = dialog \ { d }
          /\ host_out' = send_response(host_out,
                              handle_rpc("permission.request", o, app_handle), d.id)
          /\ collab' = [collab EXCEPT ![d.id] = o]
    /\ UNCHANGED << sigs, admin_token, http, max_restarts, calc, perm, stdin_guard, wr, wire, stdin >>
    /\ UNCHANGED << start_ret, asked, announced >>
    /\ UNCHANGED sup_vars /\ UNCHANGED rpc_vars /\ UNCHANGED os_vars /\ UNCHANGED task_vars
    /\ UNCHANGED fixed_vars

\* the child asks for permission with request id i
ChildAsksPermission(c, i) ==
    /\ ChildRequest(c, i)
    /\ asked'[i] = RequestFrame("permission.request", i)

\* one step of the reader task of child c
ReaderStep(c) == ReadOther(c) \/ DialogShow(c)

\* a host call and a permission request of the child, in flight together
NextDialog ==
    \/ CallAlloc(1) \/ CallInsert(1) \/ CallWrite(1) \/ CallRecv(1) \/ CallGiveUp(1)
    \/ \E c \in 1..Len(procs) : \E i \in Ids : ChildReply(c, i, EchoReply(i))
    \/ \E c \in 1..Len(procs) : \E i \in ReqIds : ChildAsksPermission(c, i)
    \/ \E c \in 1..Len(procs) : ReaderStep(c) \/ DialogReturn(c)

DialogSpec == Init /\ [][NextLife \/ NextDialog]_vars

\* both directions at once: one call_rpc invocation, answered by an echo, and
\* one request of the child to the host
NextDuplex ==
    \/ CallAlloc(1) \/ CallInsert(1) \/ CallWrite(1) \/ CallRecv(1) \/ CallGiveUp(1)
    \/ \E c \in 1..Len(procs) : ChildReply(c, 1, EchoReply(1))
    \/ \E c \in 1..Len(procs) : ChildRequest(c, 1)
    \/ \E c \in 1..Len(procs) : ReadLine(c)

DuplexSpec == Init /\ [][NextServe \/ NextDuplex]_vars

\* ============================================== frames on the child's stdin
\* the value stdin_guard has while writer w holds the lock
Holder(w) == CASE w = "call" -> 1 [] w = "notify" -> MaxCalls + 1 [] OTHER -> MaxCalls + 2

\* the lock of stdin is handed out whoever holds it
LockIgnored(guard) == TRUE

\* process.rs:316, 742, 762: self.stdin.lock().await returns when the lock is free
MayLock(guard) == guard = 0

\* process.rs:309-314, 733-737, mod.rs:88-92: the frame each writer serialises
FrameOf(w) ==
    CASE w = "call" -> RequestFrame("skills.list", 1)
      [] w = "notify" -> NotificationFrame("session.update")
      [] OTHER -> ResponseFrame(StatusOk, 1)

\* process.rs:333-337, 751-755, 773-774: what each writer returns without a handle
NoHandle(w) ==
    CASE w = "call" -> "Sidecar stdin not available"
      [] w = "notify" -> "ProcessNotRunning"
      [] OTHER -> "Ok"

\* process.rs:316-317, 742-743, 762-763: the writer takes the lock of stdin and
\* looks at the handle; without one it returns, which drops the guard
WriterLock(w) ==
    /\ wr[w].pc = "idle"
    /\ wr[w].n < MaxWrites
    /\ MayLock(stdin_guard)
    /\ wr' = [wr EXCEPT ![w] =
                 IF stdin = 0
                 THEN [pc |-> "idle", frame |-> FrameOf(w), ret |-> NoHandle(w), n |-> @.n + 1]
                 ELSE [pc |-> "json", frame |-> FrameOf(w), ret |-> "none", n |-> @.n + 1]]
    /\ stdin_guard' = IF stdin = 0 THEN stdin_guard ELSE Holder(w)
    /\ UNCHANGED << sigs, admin_token, http, max_restarts, calc, perm, dialog, wire, stdin >>
    /\ UNCHANGED sup_vars /\ UNCHANGED rpc_vars /\ UNCHANGED os_vars /\ UNCHANGED task_vars
    /\ UNCHANGED fixed_vars /\ UNCHANGED host_vars

\* a write to the pipe of a child that has exited fails; the early return drops
\* the guard (process.rs:318-331, 744-749, 764-772)
WriterFail(w) ==
    /\ wr[w].pc \in { "json", "newline", "flush" }
    /\ procs[stdin] # "alive"
    /\ wr' = [wr EXCEPT ![w].pc = "idle", ![w].ret = "Io"]
    /\ stdin_guard' = 0
    /\ UNCHANGED << sigs, admin_token, http, max_restarts, calc, perm, dialog, wire, stdin >>
    /\ UNCHANGED sup_vars /\ UNCHANGED rpc_vars /\ UNCHANGED os_vars /\ UNCHANGED task_vars
    /\ UNCHANGED fixed_vars /\ UNCHANGED host_vars

\* process.rs:318, 744-747, 764-767: write_all(json.as_bytes())
WriterJson(w) ==
    /\ wr[w].pc = "json"
    /\ procs[stdin] = "alive"
    /\ wire' = Append(wire, [c |-> stdin, w |-> w, part |-> "json", frame |-> wr[w].frame])
    /\ wr' = [wr EXCEPT ![w].pc = "newline"]
    /\ UNCHANGED << sigs, admin_token, http, max_restarts, calc, perm, dialog, stdin_guard, stdin >>
    /\ UNCHANGED sup_vars /\ UNCHANGED rpc_vars /\ UNCHANGED os_vars /\ UNCHANGED task_vars
    /\ UNCHANGED fixed_vars /\ UNCHANGED host_vars

\* process.rs:323, 748, 768-771: write_all(b"\n")
WriterNewline(w) ==
    /\ wr[w].pc = "newline"
    /\ procs[stdin] = "alive"
    /\ wire' = Append(wire, [c |-> stdin, w |-> w, part |-> "newline",
                             frame |-> [t |-> "absent"]])
    /\ wr' = [wr EXCEPT ![w].pc = "flush"]
    /\ UNCHANGED << sigs, admin_token, http, max_restarts, calc, perm, dialog, stdin_guard, stdin >>
    /\ UNCHANGED sup_vars /\ UNCHANGED rpc_vars /\ UNCHANGED os_vars /\ UNCHANGED task_vars
    /\ UNCHANGED fixed_vars /\ UNCHANGED host_vars

\* process.rs:328, 749-750, 772-774: flush; send_notification and send_response
\* return Ok and drop the guard, call_rpc goes on to await with the guard held
WriterFlush(w) ==
    /\ wr[w].pc = "flush"
    /\ procs[stdin] = "alive"
    /\ wr' = [wr EXCEPT ![w].pc = IF w = "call" THEN "await" ELSE "idle",
                        ![w].ret = IF w = "call" THEN "none" ELSE "Ok"]
    /\ stdin_guard' = IF w = "call" THEN stdin_guard ELSE 0
    /\ UNCHANGED << sigs, admin_token, http, max_restarts, calc, perm, dialog, wire, stdin >>
    /\ UNCHANGED sup_vars /\ UNCHANGED rpc_vars /\ UNCHANGED os_vars /\ UNCHANGED task_vars
    /\ UNCHANGED fixed_vars /\ UNCHANGED host_vars

\* process.rs:339-367: call_rpc returns, with a value or an error; the guard is dropped
WriterCallReturn ==
    /\ wr["call"].pc = "await"
    /\ wr' = [wr EXCEPT !["call"].pc = "idle", !["call"].ret = "returned"]
    /\ stdin_guard' = 0
    /\ UNCHANGED << sigs, admin_token, http, max_restarts, calc, perm, dialog, wire, stdin >>
    /\ UNCHANGED sup_vars /\ UNCHANGED rpc_vars /\ UNCHANGED os_vars /\ UNCHANGED task_vars
    /\ UNCHANGED fixed_vars /\ UNCHANGED host_vars

\* call_rpc, send_notification and send_response writing concurrently
NextWire ==
    \/ \E w \in Writers : WriterLock(w) \/ WriterJson(w) \/ WriterNewline(w)
                            \/ WriterFlush(w) \/ WriterFail(w)
    \/ WriterCallReturn

WireSpec == Init /\ [][NextServe \/ NextWire]_vars

\* ====================================================== permission manager
\* the request ids the model submits
RequestIds == { "a", "b" }

\* permissions.rs:45-51: PermissionManager::new(config); both collections empty
PermissionManagerNew ==
    /\ ~perm.made
    /\ \E d \in BOOLEAN, c \in BOOLEAN :
          perm' = [NoManager EXCEPT !.made = TRUE,
                      !.config = [show_native_dialog |-> d,
                                  approval_required_for_critical |-> c]]
    /\ UNCHANGED << sigs, admin_token, http, max_restarts, calc, dialog, stdin_guard, wr, wire, stdin >>
    /\ UNCHANGED sup_vars /\ UNCHANGED rpc_vars /\ UNCHANGED os_vars /\ UNCHANGED task_vars
    /\ UNCHANGED fixed_vars /\ UNCHANGED host_vars

\* permissions.rs:68-69
should_show_dialog(config, is_critical) ==
    (config.approval_required_for_critical /\ is_critical) \/ config.show_native_dialog

\* every request is approved when no dialog is shown
AutoApproveAll(is_critical) == "Approved"

\* permissions.rs:92-97: what request_approval returns when no dialog is shown
AutoDecision(is_critical) == IF is_critical THEN "Err" ELSE "Approved"

\* permissions.rs:53-99, up to blocking_show: the sender is inserted under the
\* request id (61-65); then the dialog is opened (80-84), or the call returns at
\* once (93-97).  pending_requests is not touched.
RequestApproval ==
    /\ perm.made
    /\ Len(perm.calls) < MaxApprovals
    /\ \E id \in RequestIds, is_critical \in BOOLEAN :
          LET show == should_show_dialog(perm.config, is_critical)
              call == [request_id |-> id, is_critical |-> is_critical, cancelled |-> FALSE,
                       shown |-> show, confirmed |-> FALSE,
                       st |-> IF show THEN "dialog" ELSE "returned",
                       ret |-> IF show THEN "none" ELSE AutoDecision(is_critical)]
          IN  perm' = [perm EXCEPT !.request_senders = @ \cup { id },
                                   !.calls = Append(@, call)]
    /\ UNCHANGED << sigs, admin_token, http, max_restarts, calc, dialog, stdin_guard, wr, wire, stdin >>
    /\ UNCHANGED sup_vars /\ UNCHANGED rpc_vars /\ UNCHANGED os_vars /\ UNCHANGED task_vars
    /\ UNCHANGED fixed_vars /\ UNCHANGED host_vars

\* permissions.rs:84-90: blocking_show returns the user's answer and the call
\* returns Approved or Denied; neither collection is touched
DialogAnswered ==
    /\ \E i \in 1..Len(perm.calls), ans \in BOOLEAN :
          /\ perm.calls[i].st = "dialog"
          /\ perm' = [perm EXCEPT !.calls[i].st = "returned",
                                   !.calls[i].confirmed = ans,
                                   !.calls[i].ret = IF ans THEN "Approved" ELSE "Denied"]
    /\ UNCHANGED << sigs, admin_token, http, max_restarts, calc, dialog, stdin_guard, wr, wire, stdin >>
    /\ UNCHANGED sup_vars /\ UNCHANGED rpc_vars /\ UNCHANGED os_vars /\ UNCHANGED task_vars
    /\ UNCHANGED fixed_vars /\ UNCHANGED host_vars

\* permissions.rs:101-112: cancel_request(request_id) removes the request from
\* pending_requests and the sender from request_senders.  The calls whose dialog
\* is open are marked: the receiver is dropped at line 61, so they are not woken.
CancelRequest ==
    /\ perm.made
    /\ \E id \in RequestIds :
          perm' = [perm EXCEPT
                      !.pending_requests = SelectSeq(@, LAMBDA r : r # id),
                      !.request_senders = @ \ { id },
                      !.calls = [i \in DOMAIN @ |->
                                    IF @[i].request_id = id /\ @[i].st = "dialog"
                                    THEN [@[i] EXCEPT !.cancelled = TRUE] ELSE @[i]]]
    /\ UNCHANGED << sigs, admin_token, http, max_restarts, calc, dialog, stdin_guard, wr, wire, stdin >>
    /\ UNCHANGED sup_vars /\ UNCHANGED rpc_vars /\ UNCHANGED os_vars /\ UNCHANGED task_vars
    /\ UNCHANGED fixed_vars /\ UNCHANGED host_vars

\* permissions.rs:114-118: a clone of pending_requests
list_pending == perm.pending_requests

PermSpec ==
    Init /\ [][PermissionManagerNew \/ RequestApproval \/ DialogAnswered \/ CancelRequest]_vars

\* ==================================================== supervisor claims

\* process.rs:54-87: what status() reports (pid and uptime as present / absent)
status ==
    [state |-> state, pid |-> child # 0, port |-> port, uptime |-> start_time,
     crash_count |-> self_crash_count]

\* C11: the crash count status() reports is the monitor's crash counter: after
\* the k-th child exit the monitor has observed, it is k.
C11_StatusCountsCrashes == status.crash_count = crash_count

\* the transitions of the table, by state tag
Transitions ==
    { <<"Stopped", "Starting">>, <<"Starting", "Running">>, <<"Starting", "Stopped">>,
      <<"Running", "Restarting">>, <<"Restarting", "Starting">>,
      <<"Running", "Stopping">>, <<"Stopping", "Stopped">> }
    \cup { <<s, "Crashed">> : s \in {"Stopped", "Starting", "Running", "Stopping",
                                     "Restarting"} }

\* C12: every change of the supervisor state is a transition of the table; in
\* particular the state never changes once it is Crashed.
C12_TransitionTable ==
    [][state'.tag # state.tag => <<state.tag, state'.tag>> \in Transitions]_vars

\* the API caller's stop() returns Ok(()) in this step
StopReturns == pc["ctl"] = "stop_finish" /\ pc'["ctl"] = "idle"

\* C13: when stop() returns success the state is Stopped and pid, port and
\* start time are absent; a stop() that finds no child signals no process and
\* leaves that same state.
C13_StopClears ==
    [][StopReturns =>
          /\ state' = Stopped
          /\ ~status'.pid /\ status'.port = 0 /\ ~status'.uptime
          /\ (child_opt = 0 => procs' = procs)]_vars

\* task t returns from start() in this step
StartReturns(t) == start_ret[t] = "none" /\ start_ret'[t] # "none"

\* C14: start() returns an error exactly when the OS refused the spawn, and the
\* state is then Stopped; when the spawn succeeded it returns success with the
\* state Running, whether the port was seen or the wait timed out, and after a
\* timeout the port is unknown.
C14_StartResult ==
    [][\A t \in Tasks : StartReturns(t) =>
          /\ start_ret'[t] = "err" <=> (pc[t] = "start_spawn" /\ procs' = procs)
          /\ start_ret'[t] = "err" => state' = Stopped
          /\ start_ret'[t] # "err" =>
                /\ state' = Running
                /\ spawned[t] \in 1..Len(procs) /\ child' # 0
          /\ start_ret'[t] = "ok_timeout" => status'.port = 0
          /\ start_ret'[t] = "ok_port" => status'.port # 0]_vars

\* C14 case: a start() was refused by the OS, the next one spawned a child that
\* announced nothing, and returned success with Running and no port
C14_Witness ==
    /\ spawn_fails > 0
    /\ start_ret["ctl"] = "ok_timeout"
    /\ state = Running /\ child # 0 /\ port = 0
    /\ announced[child] = << >>

\* C15: while Running with the child held being the last one spawned and the
\* only one alive, a port status() reports is the first port that child
\* announced, not one announced by an earlier child.
C15_PortOfCurrentChild ==
    (/\ state = Running /\ child = Len(procs) /\ child # 0 /\ status.port # 0
     /\ \A c \in 1..Len(procs) : procs[c] = "alive" <=> c = child) =>
        /\ announced[child] # << >>
        /\ status.port = announced[child][1]

NoChildRunning == \A c \in 1..Len(procs) : procs[c] # "alive"

\* C17: a call_rpc() that comes to write its frame while no child is running
\* returns at once with the process-not-running (stdin not available) error
\* and leaves no waiter in pending_requests.
C17_NotRunningError ==
    [][\A n \in Calls :
          (call_pc[n] = "write" /\ call_pc'[n] # "write" /\ NoChildRunning) =>
              /\ Ended(n)' /\ ret'[n].k = "no_stdin"
              /\ call_id[n] \notin DOMAIN pending_requests']_vars

\* the last API call was stop() and it has returned
Stopped_ByStop == stop_seen /\ pc["ctl"] = "idle"

\* C18: a call_rpc() awaiting its response when stop() has run ends with the
\* channel-closed error, and after stop() has returned the stdin handle is absent.
C18_StopCancelsCalls ==
    [][/\ \A n \in Calls :
            (call_pc[n] = "await" /\ chan[n].st # "sent" /\ Stopped_ByStop /\ Ended(n)')
                => ret'[n].k = "closed"
       /\ Stopped_ByStop' => stdin' = 0]_vars

\* ================================================ inbound request claims

\* the reader has taken the line of the frame the child wrote under id i
Consumed(i) ==
    /\ asked[i] # JAbsent
    /\ \A c \in 1..Len(procs) : \A j \in 1..Len(stdout[c]) :
          ~(stdout[c][j].kind = "json" /\ stdout[c][j].val = asked[i])

\* where the response frames carrying id i sit in the stdin of the children
ResponsesTo(i) ==
    { <<c, j>> \in (1..Len(procs)) \X (1..MaxReqs) :
          j <= Len(host_out[c]) /\ JGet(host_out[c][j], "id") = JNum(i) }

\* one child, alive since it was spawned, never replaced
OneChildAlive == Len(procs) = 1 /\ procs[1] = "alive"

\* C19: for every request frame with id i the reader has taken, exactly one
\* response frame with id i has been written to stdin; for a frame without an
\* id, and before the frame is taken, none.
C19_OneResponsePerRequest ==
    OneChildAlive =>
        \A i \in ReqIds :
            Cardinality(ResponsesTo(i)) =
                (IF Consumed(i) /\ JHas(asked[i], "id") THEN 1 ELSE 0)

\* handlers that answer {"error": reason} when their collaborator fails
Fallible == {"notification.show", "clipboard.writeText", "updater.check", "updater.install"}

\* C20: a request whose handler could not reach its OS collaborator is answered
\* by one response frame with its id whose result is an object with an "error"
\* string.
C20_FailureAnswered ==
    OneChildAlive =>
        \A i \in ReqIds :
            (/\ Consumed(i) /\ JHas(asked[i], "id") /\ collab[i] = "fail"
             /\ JGet(asked[i], "method").s \in Fallible) =>
                /\ Cardinality(ResponsesTo(i)) = 1
                /\ \A w \in ResponsesTo(i) :
                      JGet(JGet(host_out[w[1]][w[2]], "result"), "error").t = "str"

\* ========================================================== HTTP claims

\* the request carries Authorization: Bearer <t>, or a cookie named
\* pryx_admin_token whose value is exactly t, for the admin token t
Credentialed ==
    \/ http.auth = Some(Bearer \o admin_token)
    \/ \E j \in 1..Len(http.cookies) :
          http.cookies[j] = << CookieKey, admin_token >>

\* C21: a request under /api reaches its handler only with a valid credential;
\* every other request is answered 401 and makes no call_rpc invocation.
C21_ApiNeedsToken ==
    /\ http.reached => Credentialed
    /\ (http.st = "done" /\ ~Credentialed) => (http.status = 401 /\ http.call = 0)

\* the frame the child wrote in answer to the handler's call, if it got one
ProxiedReply == replied[call_id[http.call]]

\* call_rpc received a value on its channel
Delivered == ret[http.call].k \in {"ok", "rpc_error"}

\* C22: a REST call that passed authentication is answered 503 when the
\* supervisor has no child, 500 when the RPC failed (an error frame, or no
\* usable answer), and 200 with the result when the child answered with one.
C22_ProxyStatus ==
    (http.st = "done" /\ http.reached) =>
        /\ ret[http.call].k = "no_stdin" => http.status = 503
        /\ ret[http.call].k \in {"write_failed", "closed", "timeout"} => http.status = 500
        /\ (Delivered /\ JHas(ProxiedReply, "error")) => http.status = 500
        /\ (Delivered /\ JHas(ProxiedReply, "result")) =>
              (http.status = 200 /\ http.body = JGet(ProxiedReply, "result"))

\* the path has a segment that is exactly ..
HasDotDotSegment == \E j \in 1..Len(http.path) : http.path[j] = DotDot

\* the file or directory the request names, symlinks followed, lies outside the root
ResolvesOutside ==
    LET NonEmpty(seg) == seg # << >>
        found == Walk(<< >>, StaticRoot \o SelectSeq(http.path, NonEmpty))
    IN  ~HasDotDotSegment /\ found.kind \in {"file", "dir"} /\ ~StartsWith(found.at, StaticRoot)

\* C23: a static request whose path has a .. segment, or resolves outside the
\* root, is answered 403 with no file content.
C23_PathSafety ==
    (http.st = "done" /\ (HasDotDotSegment \/ ResolvesOutside)) =>
        (http.status = 403 /\ http.content = "")

\* ======================================================= restart claims

\* the monitor leaves its counting step
Counted == pc["mon"] = "m_count" /\ pc'["mon"] # "m_count"

\* C24: with max_restarts = 0 the state never becomes Crashed, and every child
\* exit the monitor counts is followed by a scheduled restart.
C24_UnlimitedRestarts ==
    [][/\ state'.tag # "Crashed"
       /\ Counted => (state'.tag = "Restarting" /\ pc'["mon"] = "m_sleep")]_vars

C24_Witness ==
    /\ max_restarts = 0
    /\ crash_count = MaxCrashes
    /\ mon_restarts = MaxCrashes
    /\ state.tag = "Running"

\* C25: when the monitor counts the exit of a restarted child that had run for
\* start_timeout (every child before it having crashed and been reaped), the
\* count is 1 and the backoff is the initial backoff.
C25_AttemptsReset ==
    [][(/\ Counted
        /\ mon_restarts >= 1
        /\ Len(procs) = mon_restarts + 1
        /\ \A c \in 1..Len(procs) : procs[c] = "reaped") =>
            (crash_count' = 1 /\ state' = Restarting(calculate_backoff(1)))]_vars

\* ======================================================= helper claims

\* initial_backoff_ms x multiplier^min(max(n-1,0),10) for the u32 n held in bits
ExpectedBackoff(bits) ==
    InitialBackoffMs * Pow(BackoffMultiplier,
                           IF bits < 0 \/ bits >= MaxBackoffExp + 1 THEN MaxBackoffExp
                           ELSE IF bits = 0 THEN 0 ELSE bits - 1)

\* C26: calculate_backoff(n) is initial_backoff_ms x multiplier^min(max(n-1,0),10)
\* for every attempt n: 1000, 2000, 4000 for 1, 2, 3, and initial x
\* multiplier^10 from 11 on.
C26_BackoffFormula ==
    calc.st = "ret" => calc.backoff = ExpectedBackoff(calc.attempt)

\* the digit run that begins, after non-digits, the text after the final ':'
RunAfterColon ==
    TakeNumeric(SkipNonNumeric(SubSeq(calc.line, RFind(calc.line) + 1, Len(calc.line))))

\* C27: a line with a port-sized digit run after its final ':' yields that
\* port, with or without the PRYX_CORE_LISTEN_ADDR= prefix; a line without ':'
\* or without a digit after its final ':' yields none.
C27_PortExtraction ==
    calc.st = "ret" =>
        IF RFind(calc.line) # 0 /\ RunAfterColon # << >>
        THEN DigitsValue(RunAfterColon, 0) <= U16Max =>
                calc.port.some /\ calc.port.v = DigitsValue(RunAfterColon, 0)
        ELSE ~calc.port.some

\* every request_approval call made with this request id has returned
Decided(id) ==
    /\ \E i \in 1..Len(perm.calls) : perm.calls[i].request_id = id
    /\ \A i \in 1..Len(perm.calls) :
          perm.calls[i].request_id = id => perm.calls[i].st = "returned"

\* C28: no request outlives its decision: once request_approval(req) has
\* returned, neither pending_requests nor request_senders holds an entry for
\* req.request_id, after any sequence of request and cancel operations.
C28_NoRequestOutlivesDecision ==
    \A id \in RequestIds :
        Decided(id) =>
            /\ id \notin perm.request_senders
            /\ \A j \in 1..Len(perm.pending_requests) : perm.pending_requests[j] # id

\* the requests submitted and not yet decided or cancelled
Undecided ==
    { perm.calls[i].request_id :
        i \in { k \in 1..Len(perm.calls) :
                   perm.calls[k].st = "dialog" /\ ~perm.calls[k].cancelled } }

\* C29: list_pending() returns exactly the requests submitted and not yet
\* decided or cancelled: empty for a new manager, containing a request while
\* its dialog is open, and not containing it after cancel(request_id).
C29_ListPendingExact ==
    perm.made => { list_pending[j] : j \in 1..Len(list_pending) } = Undecided

\* C30: the stdout reader never blocks on handler work: while a
\* permission.request is waiting for the user's decision the reader keeps
\* consuming stdout lines, so the response to an outstanding host call that
\* arrives during the dialog is taken before the dialog is answered.
C30_ReaderNeverBlocks ==
    \A c \in 1..Len(procs) :
        (InDialog(c) /\ stdout[c] # << >>) => ENABLED ReaderStep(c)

\* C40: the permission manager never approves a critical request without a
\* dialog: a critical request is Approved only if its dialog was shown and the
\* user confirmed; a request returned without a dialog got an error if it is
\* critical and was approved if it is not.
C40_CriticalNeedsDialog ==
    \A i \in 1..Len(perm.calls) :
        LET call == perm.calls[i]
        IN  /\ (call.is_critical /\ call.ret = "Approved") => (call.shown /\ call.confirmed)
            /\ (call.st = "returned" /\ ~call.shown) =>
                  call.ret = IF call.is_critical THEN "Err" ELSE "Approved"

\* C40 case: with native dialogs switched off, a critical request was approved
\* by the user in the dialog that critical requests still get, and a
\* non-critical one was approved without a dialog
C40_Witness ==
    /\ ~perm.config.show_native_dialog
    /\ \E i \in 1..Len(perm.calls) :
          /\ perm.calls[i].is_critical /\ perm.calls[i].ret = "Approved"
          /\ perm.calls[i].shown /\ perm.calls[i].confirmed
    /\ \E i \in 1..Len(perm.calls) :
          /\ ~perm.calls[i].is_critical /\ perm.calls[i].ret = "Approved"
          /\ ~perm.calls[i].shown

\* C38: whenever the supervisor state is Stopped, status() reports no pid, no
\* port and no start time: initially, after stop(), and after a start() that
\* failed to spawn.
C38_StoppedReportsNothing ==
    state = Stopped => (~status.pid /\ status.port = 0 /\ ~status.uptime)

\* C36: a port taken from a PRYX_CORE_LISTEN_ADDR line is in 1..65535: a line
\* whose number after the last ':' is 0 or above 65535 yields no port.
C36_PortInRange ==
    (calc.st = "ret" /\ StripPrefix(calc.line, ListenPrefix).some /\ calc.port.some) =>
        calc.port.v \in 1..U16Max

\* C31: no deadlock between the two directions: when the child sends a request
\* while a host call awaits its response, the reader answers the request
\* without waiting for the host call to end, so it goes on to read the child's
\* later response and the call is not left to its timeout.
C31_NoCrossDeadlock ==
    \A c \in 1..Len(procs) :
        (stdout[c] # << >> /\ \E n \in Calls : call_pc[n] = "await") => ENABLED ReadLine(c)

\* C34: request frames reach the child in id order: of any two frames written
\* to the stdin of a child, the one with the smaller id is written first.
C34_FramesInIdOrder ==
    \A c \in 1..Len(procs) :
        \A j, k \in 1..Len(stdin_log[c]) : j < k => stdin_log[c][j] < stdin_log[c][k]

\* the chunks written to the stdin of child c, in order
WrittenChunks(c) == SelectSeq(wire, LAMBDA x : x.c = c)

\* C33: frames on the child's stdin never interleave: what call_rpc,
\* send_notification and send_response have written to a child's stdin is a
\* sequence of frames, each one JSON object followed by one newline written by
\* the same writer; only the last frame may still lack its newline.
C33_FramesWhole ==
    \A c \in 1..Len(procs) :
        \A k \in 1..Len(WrittenChunks(c)) :
            IF k % 2 = 1
            THEN /\ WrittenChunks(c)[k].part = "json"
                 /\ WrittenChunks(c)[k].frame.t = "obj"
            ELSE /\ WrittenChunks(c)[k].part = "newline"
                 /\ WrittenChunks(c)[k].w = WrittenChunks(c)[k - 1].w

\* C33 case: all three writers have written their frames to the same child, and
\* the first of them is call_rpc, which the two others had to wait for
C33_Witness ==
    /\ Len(wire) = 6
    /\ { wire[k].w : k \in 1..Len(wire) } = Writers
    /\ \A k \in 1..Len(wire) : wire[k].c = wire[1].c
    /\ wire[1].w = "call"

\* C39: send_notification is fire-and-forget: a step of it leaves the pending
\* table and the next call id unchanged, the frame it writes has no id, and
\* without a stdin handle it writes nothing and returns a process-not-running
\* error.
C39_NotifyFireAndForget ==
    [][wr'["notify"] # wr["notify"] =>
          /\ pending_requests' = pending_requests /\ next_rpc_id' = next_rpc_id
          /\ Len(wire') <= Len(wire) + 1
          /\ (Len(wire') = Len(wire) + 1 /\ wire'[Len(wire')].part = "json") =>
                ~JHas(wire'[Len(wire')].frame, "id")
          /\ (wr["notify"].pc = "idle" /\ stdin = 0) =>
                /\ wire' = wire
                /\ wr'["notify"].pc = "idle"
                /\ wr'["notify"].ret = "ProcessNotRunning"]_vars

\* C39 case: send_notification has returned Ok and its one frame, without an
\* id, and its newline are what the child's stdin received from it
C39_Witness ==
    /\ wr["notify"].ret = "Ok"
    /\ Len(SelectSeq(wire, LAMBDA x : x.w = "notify")) = 2
    /\ \E k \in 1..Len(wire) :
          wire[k].w = "notify" /\ wire[k].part = "json" /\ ~JHas(wire[k].frame, "id")

\* C32: at most one child per supervisor: a spawned child that is still alive
\* is the one the child handle refers to, or the one a start() has just been
\* handed by spawn_sidecar and is about to store, or the one stop() has taken
\* out of the handle and is terminating.
C32_OneChild ==
    \A c \in 1..Len(procs) :
        procs[c] = "alive" =>
            \/ child = c
            \/ child_opt = c
            \/ \E t \in Tasks : pc[t] = "start_store" /\ spawned[t] = c

\* C35: each stdout line is classified as exactly one of port announcement, RPC
\* frame or log line: once the reader is through with a line, the line has not
\* both latched the port and been dispatched as an RPC request or response.
C35_OneClass ==
    calc.st = "read" => ~(calc.latched /\ calc.frame # "none")

\* C37: stop() signals in order and reaps before returning: every signal goes
\* to the process group of the child that stop() took, SIGKILL is sent only
\* right after the SIGTERM to the same child and only while that child has not
\* exited, and stop() returns success for a child it took only once that child
\* is reaped.
C37_StopSignalsInOrder ==
    [][/\ sigs' # sigs =>
             LET e == sigs'[Len(sigs')]
             IN  /\ e.pgid = e.of
                 /\ e.sig = "SIGKILL" =>
                       /\ sigs # << >>
                       /\ sigs[Len(sigs)] = [sig |-> "SIGTERM", pgid |-> e.of, of |-> e.of]
                       /\ procs[e.of] = "alive"
       /\ (StopReturns /\ child_opt # 0) => procs[child_opt] = "reaped"]_vars

\* C37 case: stop() has returned after SIGTERM and then SIGKILL to the group of
\* the child it took, and that child is reaped
C37_Witness ==
    /\ Len(sigs) = 2
    /\ sigs[1] = [sig |-> "SIGTERM", pgid |-> 1, of |-> 1]
    /\ sigs[2] = [sig |-> "SIGKILL", pgid |-> 1, of |-> 1]
    /\ state = Stopped /\ pc["ctl"] = "idle"
    /\ procs[1] = "reaped"

====
